---- MODULE Spec2Model ----
(***************************************************************************)
(* The hotel management application (src/app.js): hotels, bookings,        *)
(* payments, cancellation, reviews, registration and the seed route.       *)
(*                                                                         *)
(* src/app.js holds the application twice: lines 1-602 (the models come    *)
(* from ./models) and lines 603-1472 (the schemas are inline).  A running  *)
(* server is one of the two; `build` says which.  Where the two have the   *)
(* same statements the model cites the first.                              *)
(*                                                                         *)
(* Time is counted in hours: DayLen time units make one day.  Mongo        *)
(* documents are records; a collection is the sequence of its documents in *)
(* insertion order and a document's _id is its index; a deleted document   *)
(* leaves a tombstone, so that an _id is never given twice.  The payment   *)
(* processor (Stripe) is the environment: it keeps the payment intents     *)
(* and signs the events it sends.                                          *)
(***************************************************************************)
EXTENDS Integers, Sequences, FiniteSets, TLC

VARIABLES bookings,   \* Booking collection
          payments,   \* Payment collection
          intents,    \* payment intents held by the processor
          now,        \* current time (new Date()), in hours
          inflight,   \* the requests received, each with its position
          origin,     \* SpecConc: the collections before the first request
          reviews,    \* Review collection
          hotels,     \* Hotel collection
          zone,       \* the server's time zone: the change of its UTC offset
          users,      \* User collection
          build,      \* which copy of the application runs (1 or 2)
          budget      \* Spec: the requests the server will still receive

vars == <<bookings, payments, intents, now, inflight, origin, reviews, hotels,
          zone, users, build, budget>>

\* ---------------------------------------------------------------- bounds
MaxDocs == 2                     \* Spec: Booking documents plus payment intents
MaxNow == 12                     \* the hour after which the clock stops
MaxRequests == 3                 \* SpecConc: requests handled concurrently
MaxBookings == 2                 \* SpecBook: Booking documents
MaxReviews == 2                  \* SpecReview: Review documents ever created
MaxReviewRequests == 2           \* SpecReviewConc: requests handled concurrently
MaxReceived == 3                 \* Spec: requests received in one behaviour

\* ------------------------------------------------------------- constants
DayLen == 24                     \* 1000 * 60 * 60 * 24 ms, in hours
CancelDays == 7                  \* setDate(getDate() + 7)
CentsPerUnit == 100              \* Math.round(totalPrice * 100)
DefaultRooms == 10               \* totalRooms: req.body.totalRooms || 10
Builds == {1, 2}                 \* the two copies of the application
NoLimit == 0 - 1                 \* budget: the requests are not counted

\* ------------------------------------------------------ users and hotels
\* The sessions that send requests.  A session outlives the User document
\* it names
Users == {"u1", "u2", "adm"}
\* Accounts registered with the admin code; "adm2" created hotel h2 and sends
\* no request
Admins == {"adm", "adm2"}

\* POST /register: the User document; isAdmin says whether the admin code
\* was given
NewUser(isAdmin) == [isAdmin |-> isAdmin, live |-> TRUE]

\* The User collection before the first request
NewUsers == [u \in Users \cup Admins |-> NewUser(u \in Admins)]

\* What is left of a deleted User document: its _id, which is not given again
NoUser == [NewUser(FALSE) EXCEPT !.live = FALSE]

\* User.findById(id) on the collection us: whether it finds a document
UserExists(us, u) == u \in DOMAIN us /\ us[u].live

\* user.isAdmin of the stored document
isAdminUser(u) == users[u].isAdmin

\* A JavaScript number is kept as the fraction <<numerator, denominator>>
\* in lowest terms, the denominator positive; Whole(n) is the whole number n
Whole(n) == <<n, 1>>

HotelIds == {"h1", "h2"}
Hotel(h) == IF h = "h1" THEN [price |-> 100, totalRooms |-> Whole(1), author |-> "adm"]
            ELSE [price |-> 100, totalRooms |-> Whole(2), author |-> "adm2"]

\* averageRating is a quotient of integers; it is kept as the fraction in
\* lowest terms <<numerator, denominator>>
RECURSIVE GCD(_, _)
GCD(a, b) == IF b = 0 THEN a ELSE GCD(b, a % b)

Quotient(a, b) == LET g == GCD(a, b) IN <<a \div g, b \div g>>
Zero == Whole(0)

\* q - n for a number q and a whole number n
Minus(q, n) == <<q[1] - n * q[2], q[2]>>

\* Hotel.create: no reviews, averageRating default 0
NewHotel(price, totalRooms, author) ==
    [price |-> price, totalRooms |-> totalRooms, reviews |-> <<>>,
     averageRating |-> Zero, author |-> author, live |-> TRUE]

\* The Hotel collection before the first request
NewHotels == [h \in HotelIds |->
                NewHotel(Hotel(h).price, Hotel(h).totalRooms, Hotel(h).author)]

\* Hotel.findById(id) on the collection ht: whether it finds a document
HotelExists(ht, h) == h \in DOMAIN ht /\ ht[h].live

\* null: what findById gives when there is no document
NoHotel == [NewHotel(0, Zero, "none") EXCEPT !.live = FALSE]

findHotel(ht, h) == IF HotelExists(ht, h) THEN ht[h] ELSE NoHotel

\* ------------------------------------------------------------- helpers
SelectIdx(s, P(_)) == {i \in DOMAIN s : P(s[i])}

Min(S) == CHOOSE x \in S : \A y \in S : x <= y

\* Math.ceil(a / b) for a >= 0, b > 0
CeilDiv(a, b) == (a + b - 1) \div b

\* ----------------------------------------------------------- documents
NoIntent == 0                    \* paymentIntentId not set
NoId == 0                        \* a request without booking id

Response(route, code, info) == [route |-> route, code |-> code, info |-> info]

\* Booking.findById(id): the document, or null when there is none
Exists(coll, id) == id \in DOMAIN coll /\ coll[id].status # "deleted"

\* What deleteMany leaves of a Booking and of a Payment
GoneBooking ==
    [hotel |-> "none", user |-> "none", checkInDate |-> 0, checkOutDate |-> 0,
     numberOfRooms |-> 0, totalPrice |-> 0, status |-> "deleted",
     paymentStatus |-> "deleted", paymentIntentId |-> NoIntent]

GonePayment ==
    [booking |-> NoId, user |-> "none", amount |-> 0,
     paymentIntentId |-> NoIntent, status |-> "deleted"]

\* Model.deleteMany({}): every document of the collection becomes what is
\* left of a deleted one
deleteMany(coll, gone) == [i \in DOMAIN coll |-> gone]

\* ------------------------------------------------ POST /hotels/:id/book
\* Mutant: stays that only touch on a day do not overlap
Overlaps_strict(b, checkIn, checkOut) ==
    b.checkInDate < checkOut /\ b.checkOutDate > checkIn

\* Overlap condition of the availability query:
\* checkInDate <= requested checkOut and checkOutDate >= requested checkIn
Overlaps(b, checkIn, checkOut) ==
    b.checkInDate <= checkOut /\ b.checkOutDate >= checkIn

\* Mutant: every booking that is not cancelled holds its rooms
existingBookings_notCancelled(bk, h, checkIn, checkOut) ==
    SelectIdx(bk, LAMBDA b : b.hotel = h /\ b.status # "cancelled"
                             /\ Overlaps(b, checkIn, checkOut))

\* existingBookings: confirmed bookings of the hotel overlapping the request
existingBookings(bk, h, checkIn, checkOut) ==
    SelectIdx(bk, LAMBDA b : b.hotel = h /\ b.status = "confirmed"
                             /\ Overlaps(b, checkIn, checkOut))

RECURSIVE SumRooms(_, _)
SumRooms(bk, S) ==
    IF S = {} THEN 0
    ELSE LET i == Min(S) IN bk[i].numberOfRooms + SumRooms(bk, S \ {i})

bookedRooms(bk, h, checkIn, checkOut) ==
    SumRooms(bk, existingBookings(bk, h, checkIn, checkOut))

\* hotel: the Hotel document of h as Hotel.findById read it
availableRooms(bk, hotel, h, checkIn, checkOut) ==
    Minus(hotel.totalRooms, bookedRooms(bk, h, checkIn, checkOut))

nights(checkIn, checkOut) == CeilDiv(checkOut - checkIn, DayLen)

\* ---------------------------------------------- numberOfRooms, a form text
\* req.body.numberOfRooms is the text of a form field.  The texts the
\* requests carry, and each text as the sequence of its characters
RoomTexts == {"0", "1", "2", "1.5", "10e-1", "20e-1", "0.2e1", "-1", "-0.5"}

Chars(text) ==
    CASE text = "0"     -> <<"0">>
      [] text = "1"     -> <<"1">>
      [] text = "2"     -> <<"2">>
      [] text = "1.5"   -> <<"1", ".", "5">>
      [] text = "10e-1" -> <<"1", "0", "e", "-", "1">>
      [] text = "20e-1" -> <<"2", "0", "e", "-", "1">>
      [] text = "0.2e1" -> <<"0", ".", "2", "e", "1">>
      [] text = "-1"    -> <<"-", "1">>
      [] text = "-0.5"  -> <<"-", "0", ".", "5">>

Digits == {"0", "1", "2", "3", "4", "5", "6", "7", "8", "9"}

DigitValue(c) ==
    CASE c = "0" -> 0 [] c = "1" -> 1 [] c = "2" -> 2 [] c = "3" -> 3
      [] c = "4" -> 4 [] c = "5" -> 5 [] c = "6" -> 6 [] c = "7" -> 7
      [] c = "8" -> 8 [] c = "9" -> 9

\* The position after the digits that start at position i of s
RECURSIVE DigitsEnd(_, _)
DigitsEnd(s, i) ==
    IF i <= Len(s) /\ s[i] \in Digits THEN DigitsEnd(s, i + 1) ELSE i

\* The number the digits s[i], ..., s[j - 1] write
RECURSIVE DigitsValue(_, _, _)
DigitsValue(s, i, j) ==
    IF j <= i THEN 0 ELSE 10 * DigitsValue(s, i, j - 1) + DigitValue(s[j - 1])

RECURSIVE Pow10(_)
Pow10(n) == IF n = 0 THEN 1 ELSE 10 * Pow10(n - 1)

\* An optional sign at position i: the position after it, and its factor
SignEnd(s, i) == IF i <= Len(s) /\ s[i] \in {"+", "-"} THEN i + 1 ELSE i
SignOf(s, i) == IF i <= Len(s) /\ s[i] = "-" THEN 0 - 1 ELSE 1

\* NaN is the fraction without denominator
NaN == <<0, 0>>
IsNaN(q) == q[2] = 0
Fraction(a, b) ==
    LET g == GCD(IF a < 0 THEN 0 - a ELSE a, b) IN <<a \div g, b \div g>>

\* parseInt(text): an optional sign and the decimal digits that follow it,
\* up to the first character that is no digit; NaN when there is no digit.
\* LeadingInt: the digits of s are s[i], ..., s[j - 1]
LeadingInt(s, i, j) ==
    IF j = i THEN NaN ELSE <<SignOf(s, 1) * DigitsValue(s, i, j), 1>>
IntAfterSign(s, i) == LeadingInt(s, i, DigitsEnd(s, i))
IntOfChars(s) == IntAfterSign(s, SignEnd(s, 1))
StringToInt(text) == IntOfChars(Chars(text))

\* parseInt over the texts of RoomTexts, computed once
ParsedInts == [text \in RoomTexts |-> StringToInt(text)]
parseInt(text) == ParsedInts[text]

\* The number a text is converted to where it is compared or multiplied
\* (numberOfRooms > availableRooms, hotel.price * numberOfRooms): the whole
\* text read as a decimal literal, sign, digits, fraction and exponent;
\* the empty text is 0, any other text is NaN.
\* DecimalValue: the literal s with its parts located, the digits
\* s[i..j-1], after a dot the fraction s[j+1..k-1], after an e the exponent
\* s[e0..m-1] with its sign before e0
DecimalValue(s, i, j, dot, k, exp, e0, m) ==
    LET fractionLen == IF dot THEN k - j - 1 ELSE 0
        digits == DigitsValue(s, i, j) * Pow10(fractionLen)
                    + (IF dot THEN DigitsValue(s, j + 1, k) ELSE 0)
        places == fractionLen
                    - (IF exp THEN SignOf(s, k + 1) * DigitsValue(s, e0, m) ELSE 0)
        wellFormed == /\ j > i \/ fractionLen > 0
                      /\ exp => m > e0
                      /\ m = Len(s) + 1
    IN  IF s = <<>> THEN <<0, 1>>
        ELSE IF ~wellFormed THEN NaN
        ELSE IF places <= 0 THEN <<SignOf(s, 1) * digits * Pow10(0 - places), 1>>
        ELSE Fraction(SignOf(s, 1) * digits, Pow10(places))

\* The parts are located from left to right, each from the end of the one
\* before it
NumberAfterExponentSign(s, i, j, dot, k, exp, e0) ==
    DecimalValue(s, i, j, dot, k, exp, e0, IF exp THEN DigitsEnd(s, e0) ELSE k)
NumberAfterFraction(s, i, j, dot, k) ==
    NumberAfterExponentSign(s, i, j, dot, k,
                            k <= Len(s) /\ s[k] \in {"e", "E"}, SignEnd(s, k + 1))
NumberAfterDot(s, i, j, dot) ==
    NumberAfterFraction(s, i, j, dot, IF dot THEN DigitsEnd(s, j + 1) ELSE j)
NumberAfterDigits(s, i, j) == NumberAfterDot(s, i, j, j <= Len(s) /\ s[j] = ".")
NumberAfterSign(s, i) == NumberAfterDigits(s, i, DigitsEnd(s, i))
NumberOfChars(s) == NumberAfterSign(s, SignEnd(s, 1))
StringToNumber(text) == NumberOfChars(Chars(text))

\* The conversion over the texts of RoomTexts, computed once
Numbers == [text \in RoomTexts |-> StringToNumber(text)]
ToNumber(text) == Numbers[text]

\* q > p and q >= p as JavaScript compares two numbers: false when one of
\* them is NaN
Greater(q, p) == ~IsNaN(q) /\ ~IsNaN(p) /\ q[1] * p[2] > p[1] * q[2]
GreaterEq(q, p) == ~IsNaN(q) /\ ~IsNaN(p) /\ q[1] * p[2] >= p[1] * q[2]

\* hotel.price * numberOfRooms * nights, with the text converted to a
\* number.  The product is whole for the texts of RoomTexts and the prices
\* of the hotels
totalPriceOf(hotel, numberOfRooms, checkIn, checkOut) ==
    LET q == ToNumber(numberOfRooms) IN
    (hotel.price * q[1] * nights(checkIn, checkOut)) \div q[2]

\* Booking.create validates the document against the schema: numberOfRooms
\* and totalPrice must be numbers and numberOfRooms at least 1
createFails(numberOfRooms) ==
    \/ IsNaN(parseInt(numberOfRooms))
    \/ IsNaN(ToNumber(numberOfRooms))
    \/ parseInt(numberOfRooms)[1] < 1

\* Mutant: the schema's default status is 'confirmed'
NewBooking_confirmed(hotel, u, h, checkIn, checkOut, numberOfRooms) ==
    [hotel |-> h, user |-> u,
     checkInDate |-> checkIn, checkOutDate |-> checkOut,
     numberOfRooms |-> parseInt(numberOfRooms)[1],
     totalPrice |-> totalPriceOf(hotel, numberOfRooms, checkIn, checkOut),
     status |-> "confirmed", paymentStatus |-> "pending",
     paymentIntentId |-> NoIntent]

NewBooking(hotel, u, h, checkIn, checkOut, numberOfRooms) ==
    [hotel |-> h, user |-> u,
     checkInDate |-> checkIn, checkOutDate |-> checkOut,
     numberOfRooms |-> parseInt(numberOfRooms)[1],
     totalPrice |-> totalPriceOf(hotel, numberOfRooms, checkIn, checkOut),
     status |-> "pending", paymentStatus |-> "pending",
     paymentIntentId |-> NoIntent]

\* Mutant: the schema sets no minimum for numberOfRooms
bookHotel_noMinRooms(bk, ht, t, u, h, checkIn, checkOut, numberOfRooms) ==
    LET same(code, info) == [bookings |-> bk, resp |-> Response("book", code, info)]
        free == availableRooms(bk, ht[h], h, checkIn, checkOut)
    IN  IF ~UserExists(users, u)
        THEN same("failed", 0)
        ELSE IF isAdminUser(u)
        THEN same("admin", 0)
        ELSE IF checkIn < t \/ checkOut <= checkIn
        THEN same("invalid-dates", 0)
        ELSE IF ~HotelExists(ht, h)
        THEN same("failed", 0)
        ELSE IF Greater(ToNumber(numberOfRooms), free)
        THEN same("only-available", free)
        ELSE [bookings |-> Append(bk, NewBooking(ht[h], u, h, checkIn, checkOut,
                                                   numberOfRooms)),
              resp |-> Response("book", "redirect-payment", Len(bk) + 1)]

\* Mutant: the dates are validated before the admin is turned away
bookHotel_adminAfterDates(bk, ht, t, u, h, checkIn, checkOut, numberOfRooms) ==
    LET same(code, info) == [bookings |-> bk, resp |-> Response("book", code, info)]
        free == availableRooms(bk, ht[h], h, checkIn, checkOut)
    IN  IF ~UserExists(users, u)
        THEN same("failed", 0)
        ELSE IF checkIn < t \/ checkOut <= checkIn
        THEN same("invalid-dates", 0)
        ELSE IF isAdminUser(u)
        THEN same("admin", 0)
        ELSE IF ~HotelExists(ht, h)
        THEN same("failed", 0)
        ELSE IF Greater(ToNumber(numberOfRooms), free)
        THEN same("only-available", free)
        ELSE IF createFails(numberOfRooms)
        THEN same("failed", 0)
        ELSE [bookings |-> Append(bk, NewBooking(ht[h], u, h, checkIn, checkOut,
                                                   numberOfRooms)),
              resp |-> Response("book", "redirect-payment", Len(bk) + 1)]

\* Mutant: a stay may end on the day it starts
bookHotel_sameDay(bk, ht, t, u, h, checkIn, checkOut, numberOfRooms) ==
    LET same(code, info) == [bookings |-> bk, resp |-> Response("book", code, info)]
        free == availableRooms(bk, ht[h], h, checkIn, checkOut)
    IN  IF ~UserExists(users, u)
        THEN same("failed", 0)
        ELSE IF isAdminUser(u)
        THEN same("admin", 0)
        ELSE IF checkIn < t \/ checkOut < checkIn
        THEN same("invalid-dates", 0)
        ELSE IF ~HotelExists(ht, h)
        THEN same("failed", 0)
        ELSE IF Greater(ToNumber(numberOfRooms), free)
        THEN same("only-available", free)
        ELSE IF createFails(numberOfRooms)
        THEN same("failed", 0)
        ELSE [bookings |-> Append(bk, NewBooking(ht[h], u, h, checkIn, checkOut,
                                                   numberOfRooms)),
              resp |-> Response("book", "redirect-payment", Len(bk) + 1)]

\* Mutant: a request for exactly the rooms left is turned away too
bookHotel_noLastRoom(bk, ht, t, u, h, checkIn, checkOut, numberOfRooms) ==
    LET same(code, info) == [bookings |-> bk, resp |-> Response("book", code, info)]
        free == availableRooms(bk, ht[h], h, checkIn, checkOut)
    IN  IF ~UserExists(users, u)
        THEN same("failed", 0)
        ELSE IF isAdminUser(u)
        THEN same("admin", 0)
        ELSE IF checkIn < t \/ checkOut <= checkIn
        THEN same("invalid-dates", 0)
        ELSE IF ~HotelExists(ht, h)
        THEN same("failed", 0)
        ELSE IF GreaterEq(ToNumber(numberOfRooms), free)
        THEN same("only-available", free)
        ELSE IF createFails(numberOfRooms)
        THEN same("failed", 0)
        ELSE [bookings |-> Append(bk, NewBooking(ht[h], u, h, checkIn, checkOut,
                                                   numberOfRooms)),
              resp |-> Response("book", "redirect-payment", Len(bk) + 1)]

\* The whole handler, run without another request in between: the new
\* Booking collection and the response
bookHotel(bk, ht, t, u, h, checkIn, checkOut, numberOfRooms) ==
    LET same(code, info) == [bookings |-> bk, resp |-> Response("book", code, info)]
        free == availableRooms(bk, ht[h], h, checkIn, checkOut)
    IN  IF ~UserExists(users, u)
        THEN same("failed", 0)
        ELSE IF isAdminUser(u)
        THEN same("admin", 0)
        ELSE IF checkIn < t \/ checkOut <= checkIn
        THEN same("invalid-dates", 0)
        ELSE IF ~HotelExists(ht, h)
        THEN same("failed", 0)
        ELSE IF Greater(ToNumber(numberOfRooms), free)
        THEN same("only-available", free)
        ELSE IF createFails(numberOfRooms)
        THEN same("failed", 0)
        ELSE [bookings |-> Append(bk, NewBooking(ht[h], u, h, checkIn, checkOut,
                                                   numberOfRooms)),
              resp |-> Response("book", "redirect-payment", Len(bk) + 1)]

\* -------------------------------------------- POST /bookings/:id/payment
\* stripe.paymentIntents.create: the intent the processor records
NewIntent(bk, b) ==
    [amount |-> bk[b].totalPrice * CentsPerUnit, bookingId |-> b,
     status |-> "requires_payment"]

\* Mutant: the Payment records the amount in minor units
NewPayment_minorUnits(bk, b, intentId) ==
    [booking |-> b, user |-> bk[b].user, amount |-> bk[b].totalPrice * CentsPerUnit,
     paymentIntentId |-> intentId, status |-> "pending"]

NewPayment(bk, b, intentId) ==
    [booking |-> b, user |-> bk[b].user, amount |-> bk[b].totalPrice,
     paymentIntentId |-> intentId, status |-> "pending"]

\* gatewayOk: whether the processor answered the create call
bookingPayment(bk, pay, ints, u, b, gatewayOk) ==
    LET same(code) == [bookings |-> bk, payments |-> pay, intents |-> ints,
                       resp |-> Response("payment", code, 0)]
    IN  IF ~Exists(bk, b) THEN same("404")
        ELSE IF ~UserExists(users, bk[b].user) THEN same("500")
        ELSE IF bk[b].user # u THEN same("403")
        ELSE IF ~gatewayOk THEN same("500")
        ELSE LET id == Len(ints) + 1 IN
             [bookings |-> [bk EXCEPT ![b].paymentIntentId = id],
              payments |-> Append(pay, NewPayment(bk, b, id)),
              intents  |-> Append(ints, NewIntent(bk, b)),
              resp     |-> Response("payment", "client-secret", id)]

\* ------------------------------------------------- POST /webhook/stripe
\* A webhook request: the event in its JSON payload and who signed the raw
\* payload bytes.  "stripe" is the processor's signature with the shared
\* secret; "forged" is any header that is not.
Event(type, intentId, bookingId) ==
    [type |-> type, id |-> intentId, bookingId |-> bookingId]

RawBody(event) == [kind |-> "buffer", json |-> event]

\* Mutant: the JSON parser leaves the webhook body unread
bodyParserJson_rawKept(body) == body

\* app.use(bodyParser.json()): a JSON body is parsed into an object before
\* any route runs
bodyParserJson(body) == [kind |-> "object", json |-> body.json]

\* express.raw({type: 'application/json'}) on the route: keeps the bytes of
\* a body no earlier parser has read, and skips a body already parsed
expressRaw(body) == IF body.kind = "object" THEN body
                    ELSE [kind |-> "buffer", json |-> body.json]

\* stripe.webhooks.constructEvent(req.body, sig, secret): recomputes the
\* signature over the payload bytes it is given; throws unless they are the
\* bytes the processor signed
constructEvent(body, sig) ==
    IF body.kind = "buffer" /\ sig = "stripe"
    THEN [ok |-> TRUE, event |-> body.json]
    ELSE [ok |-> FALSE, event |-> body.json]

\* The filters of the two Payment.findOneAndUpdate calls: the documents
\* they match
matchPaymentIntentId(pay, intentId) ==
    SelectIdx(pay, LAMBDA p : p.status # "deleted" /\ p.paymentIntentId = intentId)

matchBooking(pay, b) ==
    SelectIdx(pay, LAMBDA p : p.status # "deleted" /\ p.booking = b)

\* Mutant: every matching document is updated (updateMany)
findOneAndUpdateSucceeded_many(pay, matching) ==
    [i \in DOMAIN pay |->
        IF i \in matching THEN [pay[i] EXCEPT !.status = "succeeded"] ELSE pay[i]]

\* Payment.findOneAndUpdate(filter, {status: 'succeeded'}): the first
\* matching document (the oldest, no sort being given) is updated, none
\* when nothing matches
findOneAndUpdateSucceeded(pay, matching) ==
    IF matching = {} THEN pay
    ELSE [pay EXCEPT ![Min(matching)].status = "succeeded"]

\* Booking.findByIdAndUpdate(id, {status: 'confirmed', paymentStatus: 'completed'})
findByIdAndUpdateConfirmed(bk, b) ==
    IF Exists(bk, b)
    THEN [bk EXCEPT ![b].status = "confirmed", ![b].paymentStatus = "completed"]
    ELSE bk

\* Mutant: a payment_intent.payment_failed event marks the Payment failed
handleEvent_marksFailed(bk, pay, event) ==
    IF event.type = "payment_intent.succeeded"
    THEN [bookings |-> findByIdAndUpdateConfirmed(bk, event.bookingId),
          payments |-> findOneAndUpdateSucceeded(pay,
                          matchPaymentIntentId(pay, event.id)),
          resp |-> Response("webhook", "received", 0)]
    ELSE IF event.type = "payment_intent.payment_failed"
    THEN [bookings |-> bk,
          payments |-> [p \in DOMAIN pay |->
                           IF pay[p].paymentIntentId = event.id
                           THEN [pay[p] EXCEPT !.status = "failed"] ELSE pay[p]],
          resp |-> Response("webhook", "received", 0)]
    ELSE [bookings |-> bk, payments |-> pay,
          resp |-> Response("webhook", "received", 0)]

\* The handler's branch for a verified event
handleEvent(bk, pay, event) ==
    IF event.type = "payment_intent.succeeded"
    THEN [bookings |-> findByIdAndUpdateConfirmed(bk, event.bookingId),
          payments |-> findOneAndUpdateSucceeded(pay,
                          matchPaymentIntentId(pay, event.id)),
          resp |-> Response("webhook", "received", 0)]
    ELSE [bookings |-> bk, payments |-> pay,
          resp |-> Response("webhook", "received", 0)]

\* Mutant: the event is handled whatever constructEvent answers
webhookStripe_unverified(bk, pay, event, sig) == handleEvent(bk, pay, event)

webhookStripe(bk, pay, event, sig) ==
    LET body == expressRaw(bodyParserJson(RawBody(event)))
        v    == constructEvent(body, sig)
    IN  IF ~v.ok
        THEN [bookings |-> bk, payments |-> pay,
              resp |-> Response("webhook", "400", 0)]
        ELSE handleEvent(bk, pay, v.event)

\* --------------------------------------------------- GET /payment-success
\* Mutant: the Payment filter also asks for status 'pending'
paymentSuccess_firstPending(bk, pay, u, b) ==
    IF b = NoId \/ ~Exists(bk, b) \/ bk[b].user # u
    THEN [bookings |-> bk, payments |-> pay,
          resp |-> Response("payment-success", "redirect", 0)]
    ELSE [bookings |-> [bk EXCEPT ![b].status = "confirmed",
                                  ![b].paymentStatus = "completed"],
          payments |-> findOneAndUpdateSucceeded(pay,
                          {i \in matchBooking(pay, b) : pay[i].status = "pending"}),
          resp |-> Response("payment-success", "success", 0)]

paymentSuccess(bk, pay, u, b) ==
    LET same(code) == [bookings |-> bk, payments |-> pay,
                       resp |-> Response("payment-success", code, 0)]
    IN  IF b = NoId THEN same("redirect")
        ELSE IF ~Exists(bk, b) \/ bk[b].user # u THEN same("redirect")
        ELSE [bookings |-> [bk EXCEPT ![b].status = "confirmed",
                                      ![b].paymentStatus = "completed"],
              payments |-> findOneAndUpdateSucceeded(pay, matchBooking(pay, b)),
              resp |-> Response("payment-success", "success", 0)]

\* ------------------------------------------------ POST /bookings/:id/cancel
\* The server's time zone changes its offset from UTC once, at the hour
\* ZoneChange, by z hours: 0 in a zone without daylight saving time (UTC),
\* 1 where the clocks are put forward, -1 where they are put back
ZoneShifts == {0 - 1, 0, 1}
ZoneChange == 174
offset(z, t) == IF t < ZoneChange THEN 0 ELSE z

\* getDate() and the other local-time getters: the reading of the wall clock
localTime(z, t) == t + offset(z, t)

\* The instant at which the wall clock shows the reading local: the earlier
\* one when the clocks show it twice, and for a reading they skip the
\* instant that far after the change
instantOf(z, local) ==
    IF local < ZoneChange \/ local - z < ZoneChange THEN local ELSE local - z

\* Mutant: the cutoff is an hour earlier, as if the test were a strict one
oneWeekFromNow_exclusive(t, z) ==
    instantOf(z, localTime(z, t) + CancelDays * DayLen) - 1

\* new Date() at t with setDate(getDate() + 7): the instant at which the
\* wall clock shows the same time of day seven calendar days later, which
\* is 7 * 24 hours after t only when the offset is the same at both
oneWeekFromNow(t, z) == instantOf(z, localTime(z, t) + CancelDays * DayLen)

\* Mutant: the one-week test comes before the test for a cancelled booking
cancelBooking_windowFirst(bk, t, z, u, b) ==
    LET same(code) == [bookings |-> bk, resp |-> Response("cancel", code, 0)]
    IN  IF ~Exists(bk, b) \/ bk[b].user # u THEN same("redirect")
        ELSE IF bk[b].checkInDate <= oneWeekFromNow(t, z) THEN same("window-closed")
        ELSE IF bk[b].status = "cancelled" THEN same("already-cancelled")
        ELSE [bookings |-> [bk EXCEPT ![b].status = "cancelled"],
              resp |-> Response("cancel", "cancelled", 0)]

\* Mutant: the cancellation takes the payment back as well
cancelBooking_resetsPayment(bk, t, z, u, b) ==
    LET same(code) == [bookings |-> bk, resp |-> Response("cancel", code, 0)]
    IN  IF ~Exists(bk, b) \/ bk[b].user # u THEN same("redirect")
        ELSE IF bk[b].status = "cancelled" THEN same("already-cancelled")
        ELSE IF bk[b].checkInDate <= oneWeekFromNow(t, z) THEN same("window-closed")
        ELSE [bookings |-> [bk EXCEPT ![b].status = "cancelled",
                                      ![b].paymentStatus = "pending"],
              resp |-> Response("cancel", "cancelled", 0)]

\* Mutant: the ownership check is missing
cancelBooking_anyUser(bk, t, z, u, b) ==
    LET same(code) == [bookings |-> bk, resp |-> Response("cancel", code, 0)]
    IN  IF ~Exists(bk, b) THEN same("redirect")
        ELSE IF bk[b].status = "cancelled" THEN same("already-cancelled")
        ELSE IF bk[b].checkInDate <= oneWeekFromNow(t, z) THEN same("window-closed")
        ELSE [bookings |-> [bk EXCEPT ![b].status = "cancelled"],
              resp |-> Response("cancel", "cancelled", 0)]

cancelBooking(bk, t, z, u, b) ==
    LET same(code) == [bookings |-> bk, resp |-> Response("cancel", code, 0)]
    IN  IF ~Exists(bk, b) \/ bk[b].user # u THEN same("redirect")
        ELSE IF bk[b].status = "cancelled" THEN same("already-cancelled")
        ELSE IF bk[b].checkInDate <= oneWeekFromNow(t, z) THEN same("window-closed")
        ELSE [bookings |-> [bk EXCEPT ![b].status = "cancelled"],
              resp |-> Response("cancel", "cancelled", 0)]

\* ----------------------------------------------------------- review routes
\* A Review document.  The _id of a deleted document (its index) is not
\* given again; nothing of the document is left
NewReview(u, rating) == [author |-> u, rating |-> rating, live |-> TRUE]
Deleted == [author |-> "none", rating |-> 0, live |-> FALSE]

\* Review.findById(id): whether there is such a document
ReviewExists(rv, r) == r \in DOMAIN rv /\ rv[r].live

\* populate('reviews'): the documents of the ids in the hotel's array that
\* still exist, in the array's order
populateReviews(rv, ids) == SelectSeq(ids, LAMBDA r : ReviewExists(rv, r))

RECURSIVE SumRatings(_, _)
SumRatings(rv, ids) ==
    IF ids = <<>> THEN 0 ELSE rv[Head(ids)].rating + SumRatings(rv, Tail(ids))

\* sum / reviews.length over the populated reviews, or 0 when there are none
averageOf(rv, ids) ==
    LET populated == populateReviews(rv, ids) IN
    IF Len(populated) > 0
    THEN Quotient(SumRatings(rv, populated), Len(populated))
    ELSE Zero

\* recalculateHotelRating(hotelId), and the same statements inline in the
\* create handler.  Without a Hotel document hotel.reviews throws and
\* nothing is written
recalculateHotelRating(rv, ht, h) ==
    IF HotelExists(ht, h)
    THEN [ht EXCEPT ![h].averageRating = averageOf(rv, ht[h].reviews)]
    ELSE ht

\* Mutant: any booking of the hotel by the user counts as a stay
hasBooked_anyStatus(bk, u, h) ==
    \E b \in DOMAIN bk : Exists(bk, b) /\ bk[b].hotel = h /\ bk[b].user = u

\* Booking.findOne({hotel, user, status: 'confirmed', paymentStatus: 'completed'})
hasBooked(bk, u, h) ==
    \E b \in DOMAIN bk : /\ bk[b].hotel = h /\ bk[b].user = u
                          /\ bk[b].status = "confirmed"
                          /\ bk[b].paymentStatus = "completed"

\* hotel.reviews.find(r => r.author.id.equals(user._id)) on the array of
\* ids as populate('reviews') fills it from the collection rv
existingAmong(rv, ids, u) ==
    \E i \in DOMAIN ids : ReviewExists(rv, ids[i]) /\ rv[ids[i]].author = u

\* The same with the ids read and populated at once
existingReview(rv, ht, u, h) == existingAmong(rv, ht[h].reviews, u)

\* Mutant: admins are not turned away
addReview_adminsReview(rv, ht, bk, u, h, rating) ==
    LET same(code) == [reviews |-> rv, hotels |-> ht,
                       resp |-> Response("review", code, 0)]
    IN  IF ~HotelExists(ht, h) \/ ~UserExists(users, u) THEN same("no-response")
        ELSE IF ht[h].author = u THEN same("own-hotel")
        ELSE IF ~hasBooked(bk, u, h) THEN same("not-booked")
        ELSE IF existingReview(rv, ht, u, h) THEN same("already-reviewed")
        ELSE LET rv2 == Append(rv, NewReview(u, rating))
                 ht2 == [ht EXCEPT ![h].reviews = Append(@, Len(rv2))]
             IN  [reviews |-> rv2,
                  hotels |-> recalculateHotelRating(rv2, ht2, h),
                  resp |-> Response("review", "redirect", Len(rv2))]

\* POST /hotels/:id/reviews.  Without the Hotel or the User document
\* hotel.author or user._id throws inside the async handler: nothing is
\* answered
addReview(rv, ht, bk, u, h, rating) ==
    LET same(code) == [reviews |-> rv, hotels |-> ht,
                       resp |-> Response("review", code, 0)]
    IN  IF ~HotelExists(ht, h) \/ ~UserExists(users, u) THEN same("no-response")
        ELSE IF ht[h].author = u THEN same("own-hotel")
        ELSE IF isAdminUser(u) THEN same("admin")
        ELSE IF ~hasBooked(bk, u, h) THEN same("not-booked")
        ELSE IF existingReview(rv, ht, u, h) THEN same("already-reviewed")
        ELSE LET rv2 == Append(rv, NewReview(u, rating))
                 ht2 == [ht EXCEPT ![h].reviews = Append(@, Len(rv2))]
             IN  [reviews |-> rv2,
                  hotels |-> recalculateHotelRating(rv2, ht2, h),
                  resp |-> Response("review", "redirect", Len(rv2))]

\* PUT /hotels/:id/reviews/:reviewId as the second copy defines it: the
\* recompute is inline and awaited, and without a Hotel document it throws
\* before the response
updateReview2(rv, ht, u, h, r, rating) ==
    LET same(code) == [reviews |-> rv, hotels |-> ht,
                       resp |-> Response("review-update", code, 0)]
    IN  IF ~ReviewExists(rv, r) THEN same("no-response")
        ELSE IF rv[r].author # u THEN same("back")
        ELSE LET rv2 == [rv EXCEPT ![r].rating = rating] IN
             [reviews |-> rv2,
              hotels |-> recalculateHotelRating(rv2, ht, h),
              resp |-> Response("review-update",
                         IF HotelExists(ht, h) THEN "redirect" ELSE "no-response", 0)]

\* PUT /hotels/:id/reviews/:reviewId of the first copy, with the recompute
\* it starts run to its end.  A review id without document makes
\* review.author throw inside the async handler: nothing is answered
updateReview(rv, ht, u, h, r, rating) ==
    LET same(code) == [reviews |-> rv, hotels |-> ht,
                       resp |-> Response("review-update", code, 0)]
    IN  IF ~ReviewExists(rv, r) THEN same("no-response")
        ELSE IF rv[r].author # u THEN same("back")
        ELSE LET rv2 == [rv EXCEPT ![r].rating = rating] IN
             [reviews |-> rv2,
              hotels |-> recalculateHotelRating(rv2, ht, h),
              resp |-> Response("review-update", "redirect", 0)]

\* $pull: {reviews: reviewId}
pullReview(ids, r) == SelectSeq(ids, LAMBDA i : i # r)

\* Hotel.findByIdAndUpdate(id, {$pull: {reviews: reviewId}}): nothing without
\* the document
pullFromHotel(ht, h, r) ==
    IF HotelExists(ht, h) THEN [ht EXCEPT ![h].reviews = pullReview(@, r)] ELSE ht

\* Mutant: the delete handler does not recompute the rating
deleteReview_noRecompute(rv, ht, u, h, r) ==
    LET same(code) == [reviews |-> rv, hotels |-> ht,
                       resp |-> Response("review-delete", code, 0)]
    IN  IF ~ReviewExists(rv, r) THEN same("no-response")
        ELSE IF rv[r].author # u THEN same("back")
        ELSE [reviews |-> [rv EXCEPT ![r] = Deleted],
              hotels |-> pullFromHotel(ht, h, r),
              resp |-> Response("review-delete", "redirect", 0)]

\* DELETE /hotels/:id/reviews/:reviewId
deleteReview(rv, ht, u, h, r) ==
    LET same(code) == [reviews |-> rv, hotels |-> ht,
                       resp |-> Response("review-delete", code, 0)]
    IN  IF ~ReviewExists(rv, r) THEN same("no-response")
        ELSE IF rv[r].author # u THEN same("back")
        ELSE LET rv2 == [rv EXCEPT ![r] = Deleted]
                 ht2 == pullFromHotel(ht, h, r)
             IN  [reviews |-> rv2,
                  hotels |-> recalculateHotelRating(rv2, ht2, h),
                  resp |-> Response("review-delete", "redirect", 0)]

\* DELETE /hotels/:id/reviews/:reviewId as the second copy defines it: an
\* admin passes the author check, and the recompute is inline and awaited
deleteReview2(rv, ht, u, h, r) ==
    LET same(code) == [reviews |-> rv, hotels |-> ht,
                       resp |-> Response("review-delete", code, 0)]
    IN  IF ~ReviewExists(rv, r) THEN same("no-response")
        ELSE IF rv[r].author # u /\ ~UserExists(users, u) THEN same("no-response")
        ELSE IF rv[r].author # u /\ ~isAdminUser(u) THEN same("back")
        ELSE LET rv2 == [rv EXCEPT ![r] = Deleted]
                 ht2 == pullFromHotel(ht, h, r)
             IN  [reviews |-> rv2,
                  hotels |-> recalculateHotelRating(rv2, ht2, h),
                  resp |-> Response("review-delete",
                             IF HotelExists(ht, h) THEN "redirect" ELSE "no-response", 0)]

\* ------------------------------------------------------- POST /hotels
\* req.body.totalRooms || 10, cast by the schema to a Number: the text of
\* the form field, "" when the field is left empty
RoomsField(text) == IF text = "" THEN Whole(DefaultRooms) ELSE ToNumber(text)

\* req.body.hotel of PUT /hotels/:id as findByIdAndUpdate casts it: the
\* paths of the schema the body names, each cast to the type of its path.
\* price is a whole number; totalRooms and averageRating are texts
castHotel(form) ==
    [f \in DOMAIN form |->
        IF f \in {"totalRooms", "averageRating"} THEN ToNumber(form[f]) ELSE form[f]]

\* A text that is no number makes the cast throw (CastError)
castFails(form) ==
    \E f \in DOMAIN form \cap {"totalRooms", "averageRating"} : IsNaN(ToNumber(form[f]))

\* $set of the cast body on the stored document
setHotel(hotel, form) ==
    LET body == castHotel(form) IN
    [f \in DOMAIN hotel |-> IF f \in DOMAIN body THEN body[f] ELSE hotel[f]]

\* The _id a new document of a collection kept as a function gets
NewId(prefix, coll) == prefix \o ToString(Cardinality(DOMAIN coll) + 1)

\* ----------------------------------------------------------- GET /seed
\* price and totalRooms of hotelData
hotelData ==
    <<[price |-> 299, totalRooms |-> 50], [price |-> 450, totalRooms |-> 30],
      [price |-> 180, totalRooms |-> 25], [price |-> 150, totalRooms |-> 40],
      [price |-> 220, totalRooms |-> 20], [price |-> 380, totalRooms |-> 60],
      [price |-> 275, totalRooms |-> 15], [price |-> 195, totalRooms |-> 35],
      [price |-> 320, totalRooms |-> 25], [price |-> 95, totalRooms |-> 12]>>

SeedBooking(userIndex, hotelIndex, daysFromNow, stay, rooms) ==
    [userIndex |-> userIndex, hotelIndex |-> hotelIndex,
     daysFromNow |-> daysFromNow, nights |-> stay, rooms |-> rooms]

bookingData ==
    <<SeedBooking(0, 0, 0 - 30, 3, 1), SeedBooking(0, 2, 15, 2, 1),
      SeedBooking(1, 1, 0 - 45, 5, 2), SeedBooking(1, 4, 30, 4, 1),
      SeedBooking(2, 3, 0 - 20, 2, 1), SeedBooking(2, 6, 45, 3, 2),
      SeedBooking(3, 5, 0 - 60, 7, 1), SeedBooking(3, 8, 20, 3, 1),
      SeedBooking(4, 7, 0 - 15, 4, 2), SeedBooking(4, 9, 60, 2, 1)>>

\* The bookings that get a review: those with a negative daysFromNow
PastBookings == SelectSeq([j \in DOMAIN bookingData |-> j],
                          LAMBDA j : bookingData[j].daysFromNow < 0)

SeedCollections == 5             \* the deleteMany calls
SeedAdmins == 5                  \* for (let i = 1; i <= 5; i++)
SeedUsers == 5                   \* for (let i = 0; i < 5; i++)

\* Math.floor(Math.random() * 2) + 4
RatingDraws == {4, 5}
NoDraw == 0                      \* a step that draws nothing

\* The numbers of the awaited calls of the route, counted from 1: the last
\* call of each part
LastWipe == SeedCollections
LastAdmin == LastWipe + SeedAdmins
LastUser == LastAdmin + SeedUsers
LastHotel == LastUser + Len(hotelData)
LastBooking == LastHotel + 2 * Len(bookingData)
LastReview == LastBooking + 3 * Len(PastBookings)

\* d.setDate(d.getDate() + days) on the date t: the same time of day on
\* the wall clock that many calendar days later
setDate(t, z, days) == instantOf(z, localTime(z, t) + days * DayLen)

\* paymentIntentId of the j-th seeded booking, `pi_test_...`: an id the
\* processor never gave
TestIntent(j) == 0 - j

\* The Booking document of bookingData[j], computed at time t from the
\* documents the route has created (mem)
seedBooking(mem, t, z, j) ==
    LET d == bookingData[j]
        checkIn == setDate(t, z, d.daysFromNow)
    IN  [hotel |-> mem.hotels[d.hotelIndex + 1], user |-> mem.users[d.userIndex + 1],
         checkInDate |-> checkIn, checkOutDate |-> setDate(checkIn, z, d.nights),
         numberOfRooms |-> d.rooms,
         totalPrice |-> hotelData[d.hotelIndex + 1].price * d.nights * d.rooms,
         status |-> "confirmed", paymentStatus |-> "completed",
         paymentIntentId |-> TestIntent(j)]

\* The Payment document of the booking just created
seedPayment(booking, b) ==
    [booking |-> b, user |-> booking.user, amount |-> booking.totalPrice,
     paymentIntentId |-> booking.paymentIntentId, status |-> "succeeded"]

\* What the route remembers: the ids of the documents it has created
NoMem == [admins |-> <<>>, users |-> <<>>, hotels |-> <<>>, bookings |-> <<>>,
          review |-> NoId]

\* ------------------------------------------------------- request inputs
Requesters == Users                      \* session.userId (isLoggedIn passed)
\* Ids a request can name: those of the documents there are, and one of none
BookingIds == 1..(Len(bookings) + 1)
IntentIds == 1..(Len(intents) + 1)
IdRange == 0..(MaxDocs + 1)

\* <<checkInDate, checkOutDate>> of the booking form, in hours
StayInputs == {<<180, 180>>, <<180, 204>>}
RoomInputs == {"0", "1", "1.5"}
BookHotels == {"h1"}

EventTypes == {"payment_intent.succeeded", "payment_intent.created"}
Signatures == {"stripe", "forged"}

\* The events the processor itself sends (and signs)
ProcessorEvents(ints) ==
    {Event("payment_intent.created", i, ints[i].bookingId) : i \in DOMAIN ints}
    \cup {Event("payment_intent.succeeded", i, ints[i].bookingId) :
            i \in {j \in DOMAIN ints : ints[j].status = "succeeded"}}

AnyEvents == {Event(ty, i, b) : ty \in EventTypes, i \in IntentIds, b \in BookingIds}

\* ======================================================================
\*      Concurrent requests: one step per awaited database or API call
\* ======================================================================

\* Mutant: save() writes the whole document as it was loaded and changed
saveModified_wholeDocument(bk, b, snap, doc) == [bk EXCEPT ![b] = doc]
\* Mutant: save() writes the status path alone
saveModified_statusOnly(bk, b, snap, doc) == [bk EXCEPT ![b].status = doc.status]

\* booking.save(): mongoose writes the paths whose value was changed on the
\* document since it was loaded ($set), on the row as it is stored now
saveModified(bk, b, snap, doc) ==
    [bk EXCEPT ![b] =
        [f \in DOMAIN bk[b] |-> IF doc[f] # snap[f] THEN doc[f] ELSE bk[b][f]]]

\* booking.save() throws (DocumentNotFoundError) when the document is no
\* longer stored, whether it has paths to write or not
saveThrows(bk, b) == ~Exists(bk, b)

\* A request as received: who sent it (session.userId), what it names, and
\* where its handler stands (pc), with the documents it has loaded (snap)
\* and, once it is answered, the answer (code)
Request(op, u, b, event, sig, gatewayOk) ==
    [op |-> op, u |-> u, b |-> b, event |-> event, sig |-> sig,
     gatewayOk |-> gatewayOk, pc |-> "start", snap |-> <<>>, intentId |-> NoIntent,
     silent |-> FALSE, clientTimeout |-> FALSE, code |-> "none", h |-> "none",
     form |-> <<>>,
     r |-> NoId, rating |-> 0, dup |-> FALSE, was |-> Zero, avg |-> Zero,
     k |-> 0, mem |-> <<>>]

NoEvent == Event("none", NoIntent, NoId)

\* POST /hotels/:id/book with req.body.booking
BookRequest(u, h, checkIn, checkOut, numberOfRooms) ==
    [Request("book", u, NoId, NoEvent, "none", TRUE)
        EXCEPT !.h = h, !.form = <<checkIn, checkOut, numberOfRooms>>]

\* PUT /hotels/:id with req.body.hotel, DELETE /hotels/:id, and POST /hotels
\* with its form; op says which route and which copy of it
HotelRequest(op, u, h, form) ==
    [Request(op, u, NoId, NoEvent, "none", TRUE) EXCEPT !.h = h, !.form = form]

\* A request on the reviews of hotel h; r is the review it names
ReviewRequest(op, u, h, r, rating) ==
    [Request(op, u, NoId, NoEvent, "none", TRUE)
        EXCEPT !.h = h, !.r = r, !.rating = rating]

\* POST /register; isAdmin is adminCode === 'secret123'
RegisterRequest(isAdmin) ==
    [Request("register", "none", NoId, NoEvent, "none", TRUE)
        EXCEPT !.form = <<isAdmin>>]

\* GET /seed
SeedRequest == [Request("seed", "none", NoId, NoEvent, "none", TRUE)
                   EXCEPT !.mem = NoMem]

\* The handler has ended with the answer code
Done(r, code) == [r EXCEPT !.pc = "done", !.code = code]

\* The handler ends on an exception nothing catches.  A request that was
\* not answered before gets no answer; one that was is not answered again
Dies(r) == Done(r, IF r.code = "none" THEN "no-response" ELSE r.code)

\* The redirect is sent with recalculateHotelRating(req.params.id) called
\* and not awaited: what runs on is the recompute, which holds the hotel's
\* id and nothing else of the request
Detached(r) ==
    [r EXCEPT !.pc = "reload", !.code = "redirect", !.u = "none", !.r = NoId,
              !.rating = 0, !.snap = <<>>]

\* The handler, or the recompute it left running, has come to its end
Ends(r, code) == Done(r, IF r.code = "none" THEN code ELSE r.code)

\* The database a step reads and writes
Database(bk, pay, ints, ht, rv, us) ==
    [bookings |-> bk, payments |-> pay, intents |-> ints, hotels |-> ht,
     reviews |-> rv, users |-> us]

\* The awaited call number n of GET /seed, with the statements that follow
\* it up to the next call; rnd is the rating drawn before Review.create
seedStep(db, t, z, r, rnd) ==
    LET n == r.k + 1
        on(db2, r2) == [db |-> db2, req |-> [r2 EXCEPT !.k = n]]
    IN
    IF n = 1 THEN on([db EXCEPT !.users = deleteMany(@, NoUser)], r)
    ELSE IF n = 2 THEN on([db EXCEPT !.hotels = deleteMany(@, NoHotel)], r)
    ELSE IF n = 3 THEN on([db EXCEPT !.bookings = deleteMany(@, GoneBooking)], r)
    ELSE IF n = 4 THEN on([db EXCEPT !.reviews = deleteMany(@, Deleted)], r)
    ELSE IF n = 5 THEN on([db EXCEPT !.payments = deleteMany(@, GonePayment)], r)
    ELSE IF n <= LastAdmin THEN                           \* User.create (admin)
        LET id == NewId("u", db.users) IN
        on([db EXCEPT !.users = (id :> NewUser(TRUE)) @@ @],
           [r EXCEPT !.mem.admins = Append(@, id)])
    ELSE IF n <= LastUser THEN                            \* User.create
        LET id == NewId("u", db.users) IN
        on([db EXCEPT !.users = (id :> NewUser(FALSE)) @@ @],
           [r EXCEPT !.mem.users = Append(@, id)])
    ELSE IF n <= LastHotel THEN                           \* Hotel.create
        LET i == n - LastUser
            id == NewId("h", db.hotels)
            mem == [r.mem EXCEPT !.hotels = Append(@, id)]
        IN  on([db EXCEPT !.hotels =
                    (id :> NewHotel(hotelData[i].price, Whole(hotelData[i].totalRooms),
                                    r.mem.admins[(i - 1) \div 2 + 1])) @@ @],
               [r EXCEPT !.mem = mem,
                         !.snap = IF n = LastHotel
                                  THEN seedBooking(mem, t, z, 1) ELSE <<>>])
    ELSE IF n <= LastBooking /\ (n - LastHotel) % 2 = 1 THEN  \* Booking.create
        LET b == Len(db.bookings) + 1 IN
        on([db EXCEPT !.bookings = Append(@, r.snap)],
           [r EXCEPT !.mem.bookings = Append(@, b),
                     !.snap = seedPayment(r.snap, b)])
    ELSE IF n <= LastBooking THEN                         \* Payment.create
        LET j == (n - LastHotel) \div 2 IN
        on([db EXCEPT !.payments = Append(@, r.snap)],
           [r EXCEPT !.snap = IF j < Len(bookingData)
                              THEN seedBooking(r.mem, t, z, j + 1) ELSE <<>>])
    ELSE
        LET m == (n - LastBooking - 1) \div 3 + 1
            j == PastBookings[m]
            h == r.mem.hotels[bookingData[j].hotelIndex + 1]
        IN
        IF (n - LastBooking) % 3 = 1 THEN                 \* Review.create
            on([db EXCEPT !.reviews =
                    Append(@, NewReview(r.mem.users[bookingData[j].userIndex + 1],
                                        rnd))],
               [r EXCEPT !.mem.review = Len(db.reviews) + 1])
        ELSE IF (n - LastBooking) % 3 = 2 THEN            \* Review.find
            on(db, [r EXCEPT !.avg = averageOf(db.reviews, <<r.mem.review>>)])
        ELSE                                              \* hotel.save()
            IF ~HotelExists(db.hotels, h)
            THEN on(db, Done(r, "seed-failed"))
            ELSE on([db EXCEPT !.hotels[h].reviews = Append(@, r.mem.review),
                               !.hotels[h].averageRating =
                                   IF r.avg # Zero THEN r.avg ELSE @],
                    IF n = LastReview THEN Done(r, "seeded") ELSE r)

\* One step of request r on the database: the call it is waiting for, and
\* the statements that follow it up to its next await or to its end
step(db, t, z, r, rnd) ==
    LET bk == db.bookings
        pay == db.payments
        ints == db.intents
        ht == db.hotels
        rv == db.reviews
        us == db.users
        same(r2) == [db |-> db, req |-> r2]
        on(db2, r2) == [db |-> db2, req |-> r2]
    IN
    CASE r.op = "book" /\ r.pc = "start" ->                \* User.findById
            IF ~UserExists(us, r.u) THEN same(Done(r, "failed"))
            ELSE IF us[r.u].isAdmin THEN same(Done(r, "admin"))
            ELSE same([r EXCEPT !.pc = "find-hotel"])
      [] r.op = "book" /\ r.pc = "find-hotel" ->          \* Hotel.findById
            IF r.form[1] < t \/ r.form[2] <= r.form[1]
            THEN same(Done(r, "invalid-dates"))
            ELSE same([r EXCEPT !.pc = "find-bookings", !.snap = findHotel(ht, r.h)])
      [] r.op = "book" /\ r.pc = "find-bookings" ->       \* Booking.find
            IF ~r.snap.live THEN same(Done(r, "failed"))
            ELSE IF Greater(ToNumber(r.form[3]),
                            availableRooms(bk, r.snap, r.h, r.form[1], r.form[2]))
            THEN same(Done(r, "only-available"))
            ELSE same([r EXCEPT !.pc = "create",
                                !.snap = NewBooking(r.snap, r.u, r.h, r.form[1],
                                                    r.form[2], r.form[3])])
      [] r.op = "book" /\ r.pc = "create" ->              \* Booking.create
            IF createFails(r.form[3]) THEN same(Done(r, "failed"))
            ELSE on([db EXCEPT !.bookings = Append(@, r.snap)],
                    Done(r, "redirect-payment"))
      [] r.op \in {"update-hotel", "update-hotel2", "delete-hotel", "delete-hotel2"}
         /\ r.pc = "start" ->                              \* Hotel.findById
            same([r EXCEPT !.pc = "find-user", !.snap = findHotel(ht, r.h)])
      [] r.op \in {"update-hotel", "delete-hotel"} /\ r.pc = "find-user" ->
            \* User.findById; foundHotel.author of no document throws
            IF ~r.snap.live THEN same(Dies(r))
            ELSE IF r.snap.author # r.u THEN same(Done(r, "back"))
            ELSE same([r EXCEPT !.pc = "write", !.snap = <<>>])
      [] r.op \in {"update-hotel2", "delete-hotel2"} /\ r.pc = "find-user" ->
            \* the second copy: ... || currentUser.isAdmin
            IF ~r.snap.live THEN same(Dies(r))
            ELSE IF r.snap.author = r.u THEN same([r EXCEPT !.pc = "write", !.snap = <<>>])
            ELSE IF ~UserExists(us, r.u) THEN same(Dies(r))
            ELSE IF us[r.u].isAdmin THEN same([r EXCEPT !.pc = "write", !.snap = <<>>])
            ELSE same(Done(r, "back"))
      [] r.op \in {"update-hotel", "update-hotel2"} /\ r.pc = "write" ->
            \* Hotel.findByIdAndUpdate(id, req.body.hotel): the body is cast
            \* before the query is sent, and a CastError is caught by nothing
            IF castFails(r.form) THEN same(Dies(r))
            ELSE on(IF HotelExists(ht, r.h)
                    THEN [db EXCEPT !.hotels[r.h] = setHotel(@, r.form)]
                    ELSE db,
                    Done(r, "redirect"))
      [] r.op \in {"delete-hotel", "delete-hotel2"} /\ r.pc = "write" ->
            \* Hotel.findByIdAndDelete(id)
            on([db EXCEPT !.hotels[r.h] = NoHotel], Done(r, "redirect"))
      [] r.op = "create-hotel" /\ r.pc = "start" ->       \* isAdmin: User.findById
            IF ~(UserExists(us, r.u) /\ us[r.u].isAdmin) THEN same(Done(r, "403"))
            ELSE same([r EXCEPT !.pc = "find-user"])
      [] r.op = "create-hotel" /\ r.pc = "find-user" ->   \* User.findById
            \* req.file of a form without image, or user._id of no document,
            \* throws
            IF ~r.form[3] \/ ~UserExists(us, r.u) THEN same(Dies(r))
            ELSE same([r EXCEPT !.pc = "create"])
      [] r.op = "create-hotel" /\ r.pc = "create" ->      \* Hotel.create
            \* a totalRooms that is no number fails the validation
            IF IsNaN(RoomsField(r.form[2])) THEN same(Dies(r))
            ELSE on([db EXCEPT !.hotels =
                        (NewId("h", ht)
                            :> NewHotel(r.form[1], RoomsField(r.form[2]), r.u))
                        @@ @],
                    Done(r, "redirect"))
      [] r.op = "register" /\ r.pc = "start" ->           \* User.create
            on([db EXCEPT !.users = (NewId("u", us) :> NewUser(r.form[1])) @@ @],
               Done(r, "redirect"))
      [] r.op = "seed" -> seedStep(db, t, z, r, rnd)
      [] r.op = "payment-success" /\ r.pc = "start" ->
            IF r.b = NoId \/ ~Exists(bk, r.b) \/ bk[r.b].user # r.u
            THEN same(Done(r, "redirect"))
            ELSE same([r EXCEPT !.pc = "save", !.snap = bk[r.b]])
      [] r.op = "payment-success" /\ r.pc = "save" ->
            LET doc == [r.snap EXCEPT !.status = "confirmed",
                                      !.paymentStatus = "completed"]
            IN  IF saveThrows(bk, r.b) THEN same(Done(r, "error"))
                ELSE on([db EXCEPT !.bookings = saveModified(bk, r.b, r.snap, doc)],
                        [r EXCEPT !.pc = "update-payment"])
      [] r.op = "payment-success" /\ r.pc = "update-payment" ->
            on([db EXCEPT !.payments =
                    findOneAndUpdateSucceeded(pay, matchBooking(pay, r.b))],
               Done(r, "success"))
      [] r.op = "webhook" /\ r.pc = "start" ->
            LET v == constructEvent(expressRaw(bodyParserJson(RawBody(r.event))), r.sig)
            IN  IF ~v.ok THEN same(Done(r, "400"))
                ELSE IF v.event.type # "payment_intent.succeeded"
                THEN same(Done(r, "received"))
                ELSE on([db EXCEPT !.bookings =
                            findByIdAndUpdateConfirmed(bk, v.event.bookingId)],
                        [r EXCEPT !.pc = "update-payment"])
      [] r.op = "webhook" /\ r.pc = "update-payment" ->
            on([db EXCEPT !.payments =
                    findOneAndUpdateSucceeded(pay, matchPaymentIntentId(pay, r.event.id))],
               Done(r, "received"))
      [] r.op = "payment" /\ r.pc = "start" ->
            \* Booking.findById(id); populate asks for nothing when there
            \* is no document
            IF ~Exists(bk, r.b) THEN same(Done(r, "404"))
            ELSE same([r EXCEPT !.pc = "populate", !.snap = bk[r.b]])
      [] r.op = "payment" /\ r.pc = "populate" ->
            \* populate('hotel user'): booking.user is null without the
            \* User document, and booking.user._id throws.  Nothing of the
            \* populated hotel is read
            IF ~UserExists(us, r.snap.user) THEN same(Done(r, "500"))
            ELSE IF r.snap.user # r.u THEN same(Done(r, "403"))
            ELSE same([r EXCEPT !.pc = "create-intent"])
      [] r.op = "payment" /\ r.pc = "create-intent" ->
            \* stripe.paymentIntents.create has settled.  A rejected promise,
            \* after the processor's refusal or after the client library
            \* gave up a call that was not answered, goes to the catch
            IF r.silent \/ ~r.gatewayOk THEN same(Done(r, "500"))
            ELSE on([db EXCEPT !.intents =
                        Append(@, [amount |-> r.snap.totalPrice * CentsPerUnit,
                                   bookingId |-> r.b, status |-> "requires_payment"])],
                    [r EXCEPT !.pc = "save", !.intentId = Len(ints) + 1])
      [] r.op = "payment" /\ r.pc = "save" ->
            LET doc == [r.snap EXCEPT !.paymentIntentId = r.intentId]
            IN  IF saveThrows(bk, r.b) THEN same(Done(r, "500"))
                ELSE on([db EXCEPT !.bookings = saveModified(bk, r.b, r.snap, doc)],
                        [r EXCEPT !.pc = "create-payment"])
      [] r.op = "payment" /\ r.pc = "create-payment" ->
            on([db EXCEPT !.payments =
                    Append(@, [booking |-> r.b, user |-> r.snap.user,
                               amount |-> r.snap.totalPrice,
                               paymentIntentId |-> r.intentId,
                               status |-> "pending"])],
               Done(r, "client-secret"))
      [] r.op = "cancel" /\ r.pc = "start" ->
            IF ~Exists(bk, r.b) \/ bk[r.b].user # r.u THEN same(Done(r, "redirect"))
            ELSE IF bk[r.b].status = "cancelled" THEN same(Done(r, "already-cancelled"))
            ELSE IF bk[r.b].checkInDate <= oneWeekFromNow(t, z)
            THEN same(Done(r, "window-closed"))
            ELSE same([r EXCEPT !.pc = "save", !.snap = bk[r.b]])
      [] r.op = "cancel" /\ r.pc = "save" ->
            LET doc == [r.snap EXCEPT !.status = "cancelled"]
            IN  IF saveThrows(bk, r.b) THEN same(Done(r, "cancel-failed"))
                ELSE on([db EXCEPT !.bookings = saveModified(bk, r.b, r.snap, doc)],
                        Done(r, "cancelled"))
      [] r.op = "create" /\ r.pc = "start" ->
            \* Hotel.findById(id); populate asks for nothing when there is
            \* no document
            same([r EXCEPT !.pc = IF HotelExists(ht, r.h) THEN "populate"
                                  ELSE "find-user",
                           !.snap = findHotel(ht, r.h)])
      [] r.op = "create" /\ r.pc = "populate" ->
            \* populate('reviews'): the reviews of the ids that were read
            same([r EXCEPT !.pc = "find-user",
                           !.dup = existingAmong(rv, r.snap.reviews, r.u)])
      [] r.op = "create" /\ r.pc = "find-user" ->         \* User.findById
            IF ~r.snap.live \/ ~UserExists(us, r.u) THEN same(Dies(r))
            ELSE IF r.snap.author = r.u THEN same(Done(r, "own-hotel"))
            ELSE IF us[r.u].isAdmin THEN same(Done(r, "admin"))
            ELSE same([r EXCEPT !.pc = "find-booking", !.snap = <<>>])
      [] r.op = "create" /\ r.pc = "find-booking" ->      \* Booking.findOne
            IF ~hasBooked(bk, r.u, r.h) THEN same(Done(r, "not-booked"))
            ELSE IF r.dup THEN same(Done(r, "already-reviewed"))
            ELSE same([r EXCEPT !.pc = "create"])
      [] r.op = "create" /\ r.pc = "create" ->            \* Review.create
            on([db EXCEPT !.reviews = Append(@, NewReview(r.u, r.rating))],
               [r EXCEPT !.pc = "push", !.r = Len(rv) + 1])
      [] r.op = "create" /\ r.pc = "push" ->
            \* hotel.save(): the pushed id is added to the stored array
            IF ~HotelExists(ht, r.h) THEN same(Dies(r))
            ELSE on([db EXCEPT !.hotels[r.h].reviews = Append(@, r.r)],
                    [r EXCEPT !.pc = "reload"])
      [] r.op \in {"update", "update2", "delete"} /\ r.pc = "start" ->
            \* Review.findById; review.author of no document throws
            IF ~ReviewExists(rv, r.r) THEN same(Dies(r))
            ELSE IF rv[r.r].author # r.u THEN same(Done(r, "back"))
            ELSE same([r EXCEPT !.pc = IF r.op = "delete" THEN "pull" ELSE "update"])
      [] r.op = "delete2" /\ r.pc = "start" ->            \* Review.findById
            same([r EXCEPT !.pc = "find-user",
                           !.snap = IF ReviewExists(rv, r.r) THEN rv[r.r] ELSE Deleted])
      [] r.op = "delete2" /\ r.pc = "find-user" ->        \* User.findById
            \* the second copy: ... && !currentUser.isAdmin
            IF ~r.snap.live THEN same(Dies(r))
            ELSE IF r.snap.author = r.u THEN same([r EXCEPT !.pc = "pull", !.snap = <<>>])
            ELSE IF ~UserExists(us, r.u) THEN same(Dies(r))
            ELSE IF us[r.u].isAdmin THEN same([r EXCEPT !.pc = "pull", !.snap = <<>>])
            ELSE same(Done(r, "back"))
      [] r.op \in {"update", "update2"} /\ r.pc = "update" ->
            \* Review.findByIdAndUpdate: nothing to update once deleted.
            \* The first copy calls recalculateHotelRating without awaiting
            \* it: the redirect is sent now, the recompute runs on
            on(IF ReviewExists(rv, r.r)
               THEN [db EXCEPT !.reviews[r.r].rating = r.rating] ELSE db,
               IF r.op = "update" THEN Detached(r) ELSE [r EXCEPT !.pc = "reload"])
      [] r.op \in {"delete", "delete2"} /\ r.pc = "pull" ->
            \* Hotel.findByIdAndUpdate(id, {$pull: {reviews: reviewId}})
            on([db EXCEPT !.hotels = pullFromHotel(ht, r.h, r.r)],
               [r EXCEPT !.pc = "delete"])
      [] r.op \in {"delete", "delete2"} /\ r.pc = "delete" ->
            \* Review.findByIdAndDelete; the first copy sends the redirect
            \* with the recompute called and not awaited
            on(IF r.r \in DOMAIN rv THEN [db EXCEPT !.reviews[r.r] = Deleted] ELSE db,
               IF r.op = "delete" THEN Detached(r) ELSE [r EXCEPT !.pc = "reload"])
      [] r.op \in {"create", "update", "update2", "delete", "delete2"}
         /\ r.pc = "reload" ->
            \* the recompute reads the hotel: Hotel.findById; hotel.reviews
            \* of no document throws
            IF ~HotelExists(ht, r.h) THEN same(Dies(r))
            ELSE same([r EXCEPT !.pc = "populate-rating",
                                !.was = ht[r.h].averageRating,
                                !.snap = ht[r.h].reviews])
      [] r.op \in {"create", "update", "update2", "delete", "delete2"}
         /\ r.pc = "populate-rating" ->
            \* populate('reviews'): the reviews of the ids that were read,
            \* and their mean
            same([r EXCEPT !.pc = "save-rating", !.snap = <<>>,
                           !.avg = averageOf(rv, r.snap)])
      [] r.op \in {"create", "update", "update2", "delete", "delete2"}
         /\ r.pc = "save-rating" ->
            \* hotel.save() writes the averageRating computed from what was
            \* read, when it differs from the value that was loaded, and
            \* throws without the document
            IF ~HotelExists(ht, r.h) THEN same(Dies(r))
            ELSE IF r.avg = r.was THEN same(Ends(r, "redirect"))
            ELSE on([db EXCEPT !.hotels[r.h].averageRating = r.avg],
                    Ends(r, "redirect"))

\* A confirmation, payment or cancel request handled without interruption
handle(db, t, z, r) ==
    CASE r.op = "payment-success" ->
            LET x == paymentSuccess(db.bookings, db.payments, r.u, r.b) IN
            [bookings |-> x.bookings, payments |-> x.payments, intents |-> db.intents]
      [] r.op = "webhook" ->
            LET x == webhookStripe(db.bookings, db.payments, r.event, r.sig) IN
            [bookings |-> x.bookings, payments |-> x.payments, intents |-> db.intents]
      [] r.op = "payment" ->
            LET x == bookingPayment(db.bookings, db.payments, db.intents,
                                    r.u, r.b, r.gatewayOk) IN
            [bookings |-> x.bookings, payments |-> x.payments, intents |-> x.intents]
      [] r.op = "cancel" ->
            LET x == cancelBooking(db.bookings, t, z, r.u, r.b) IN
            [bookings |-> x.bookings, payments |-> db.payments, intents |-> db.intents]

\* ----------------------------------------------------------------- Init
\* A booking as /payment-success leaves it
Confirmed(booking) ==
    [booking EXCEPT !.status = "confirmed", !.paymentStatus = "completed"]

\* The collections before the first request: the two hotels and nothing
\* else, or u1's booking of h1 as well, paid and confirmed, with u1's
\* three-star review of the hotel
StayBooking ==
    [Confirmed(NewBooking(Hotel("h1"), "u1", "h1", 180, 204, "1"))
        EXCEPT !.paymentIntentId = 1]
StayPayment == [NewPayment(<<StayBooking>>, 1, 1) EXCEPT !.status = "succeeded"]
StayIntent == [NewIntent(<<StayBooking>>, 1) EXCEPT !.status = "succeeded"]
StayHotels ==
    [NewHotels EXCEPT !["h1"].reviews = <<1>>, !["h1"].averageRating = <<3, 1>>]

Origins ==
    {Database(<<>>, <<>>, <<>>, NewHotels, <<>>, NewUsers),
     Database(<<StayBooking>>, <<StayPayment>>, <<StayIntent>>, StayHotels,
              <<NewReview("u1", 3)>>, NewUsers)}

\* The accounts of Users and Admins; the server runs in UTC and is either
\* copy of the application
Init ==
    /\ \E db \in Origins :
          /\ bookings = db.bookings
          /\ payments = db.payments
          /\ intents = db.intents
          /\ reviews = db.reviews
          /\ hotels = db.hotels
          /\ users = db.users
    /\ now = 0
    /\ inflight = <<>>
    /\ origin = [bookings |-> <<>>, payments |-> <<>>, intents |-> <<>>]
    /\ zone = 0
    /\ build \in Builds
    /\ budget = MaxReceived

\* The same with the first copy running and the requests not counted: the
\* routes of SpecPay, SpecBook and SpecConc have the same statements in
\* both copies
InitPay ==
    /\ bookings = <<>>
    /\ payments = <<>>
    /\ intents = <<>>
    /\ now = 0
    /\ inflight = <<>>
    /\ origin = [bookings |-> <<>>, payments |-> <<>>, intents |-> <<>>]
    /\ reviews = <<>>
    /\ hotels = NewHotels
    /\ zone = 0
    /\ users = NewUsers
    /\ build = 1
    /\ budget = NoLimit

\* The same, on a server in any of the time zones
InitZones ==
    /\ bookings = <<>>
    /\ payments = <<>>
    /\ intents = <<>>
    /\ now = 0
    /\ inflight = <<>>
    /\ origin = [bookings |-> <<>>, payments |-> <<>>, intents |-> <<>>]
    /\ reviews = <<>>
    /\ hotels = NewHotels
    /\ zone \in ZoneShifts
    /\ users = NewUsers
    /\ build = 1
    /\ budget = NoLimit

\* -------------------------------------------------------------- actions
\* The hours at which the clock is read: 0, 11, 12, and every half day
\* after that
NextInstant(t) == IF t = 0 THEN 11 ELSE IF t = 11 THEN 12 ELSE t + 12

\* A seed request is being handled
Seeding == \E i \in DOMAIN inflight : inflight[i].op = "seed"

\* The clock is read at a later hour
Tick ==
    /\ now < MaxNow
    /\ now' = NextInstant(now)
    /\ UNCHANGED <<bookings, payments, intents, inflight, origin, reviews, hotels,
                   zone, users, build, budget>>

\* The clock is read half a day later: the hours 0 and 12.  The budget
\* bounds what happens while a seed request is handled: the clock moving
\* between two of its calls is counted like a request received
TickHalfDay ==
    /\ now + DayLen \div 2 <= MaxNow
    /\ (Seeding /\ budget # NoLimit) => budget >= 1
    /\ now' = now + DayLen \div 2
    /\ budget' = IF Seeding /\ budget # NoLimit THEN budget - 1 ELSE budget
    /\ UNCHANGED <<bookings, payments, intents, inflight, origin, reviews, hotels,
                   zone, users, build>>

\* The requests being handled at the same time
MaxInflight == 2

\* Requests in flight that may still create a Booking or a payment intent
Creating ==
    {i \in DOMAIN inflight :
        \/ inflight[i].op = "book"
        \/ inflight[i].op = "payment"
              /\ inflight[i].pc \in {"start", "populate", "create-intent"}}

\* What is left of the requests in flight when request i has taken a step:
\* a request whose handler has ended is forgotten
Continue(reqs, i, r) ==
    IF r.pc = "done"
    THEN SubSeq(reqs, 1, i - 1) \o SubSeq(reqs, i + 1, Len(reqs))
    ELSE [reqs EXCEPT ![i] = r]

\* The stored collections
Collections == Database(bookings, payments, intents, hotels, reviews, users)

\* The collections become those of db
Writes(db) ==
    /\ bookings' = db.bookings
    /\ payments' = db.payments
    /\ intents' = db.intents
    /\ hotels' = db.hotels
    /\ reviews' = db.reviews
    /\ users' = db.users

\* What a request takes of the budget: a seed request, with its sixty
\* calls, is counted twice
SeedCost == 2
Cost(r) == IF r.op = "seed" THEN SeedCost ELSE 1

\* Request r is received and its handler runs until the call it awaits
\* first has been served.  (A handler reads nothing but the request before
\* that call, so the time a request waits for it is part of the time it
\* took to arrive.)
Arrives(r) ==
    /\ Len(inflight) < MaxInflight
    /\ budget = NoLimit \/ budget >= Cost(r)
    /\ LET x == step(Collections, now, zone, r, NoDraw) IN
       /\ Writes(x.db)
       /\ inflight' = Continue(Append(inflight, r), Len(inflight) + 1, x.req)
    /\ budget' = IF budget = NoLimit THEN NoLimit ELSE budget - Cost(r)
    /\ UNCHANGED <<now, origin, zone, build>>

\* POST /hotels/:id/book is received
BookHotel(u, h, stay, numberOfRooms) ==
    /\ Len(bookings) + Len(intents) + Cardinality(Creating) < MaxDocs
    /\ Arrives(BookRequest(u, h, stay[1], stay[2], numberOfRooms))

\* POST /bookings/:id/payment is received
BookingPayment(u, b, gatewayOk) ==
    /\ b \in DOMAIN bookings
    /\ Len(bookings) + Len(intents) + Cardinality(Creating) < MaxDocs
    /\ Arrives(Request("payment", u, b, NoEvent, "none", gatewayOk))

\* GET /payment-success is received
PaymentSuccess(u, b) ==
    /\ b \in DOMAIN bookings
    /\ Arrives(Request("payment-success", u, b, NoEvent, "none", TRUE))

\* POST /bookings/:id/cancel is received
CancelBooking(u, b) ==
    /\ b \in DOMAIN bookings
    /\ Arrives(Request("cancel", u, b, NoEvent, "none", TRUE))

\* PUT /hotels/:id is received by the first copy
UpdateHotel(u, h, form) ==
    /\ build = 1
    /\ Arrives(HotelRequest("update-hotel", u, h, form))

\* PUT /hotels/:id is received by the second copy
UpdateHotel2(u, h, form) ==
    /\ build = 2
    /\ Arrives(HotelRequest("update-hotel2", u, h, form))

\* DELETE /hotels/:id is received by the first copy
DeleteHotel(u, h) ==
    /\ build = 1
    /\ Arrives(HotelRequest("delete-hotel", u, h, <<>>))

\* DELETE /hotels/:id is received by the second copy
DeleteHotel2(u, h) ==
    /\ build = 2
    /\ Arrives(HotelRequest("delete-hotel2", u, h, <<>>))

\* POST /hotels is received; file: whether the form carries an image
CreateHotel(u, price, totalRooms, file) ==
    /\ totalRooms \in {""} \cup RoomTexts
    /\ Arrives(HotelRequest("create-hotel", u, "none", <<price, totalRooms, file>>))

\* POST /register is received
Register(isAdmin) ==
    /\ isAdmin \in BOOLEAN
    /\ Arrives(RegisterRequest(isAdmin))

\* GET /seed is received; only the second copy has the route.  The seed
\* requests are sent one after the other
Seed ==
    /\ build = 2
    /\ ~Seeding
    /\ Arrives(SeedRequest)

\* POST /hotels/:id/reviews is received
AddReview(u, h, rating) ==
    /\ u \in Users
    /\ Arrives(ReviewRequest("create", u, h, NoId, rating))

\* PUT /hotels/:id/reviews/:reviewId is received by the first copy
UpdateReview(u, h, r, rating) ==
    /\ build = 1
    /\ r \in 1..(Len(reviews) + 1)
    /\ Arrives(ReviewRequest("update", u, h, r, rating))

\* PUT /hotels/:id/reviews/:reviewId is received by the second copy
UpdateReview2(u, h, r, rating) ==
    /\ build = 2
    /\ r \in 1..(Len(reviews) + 1)
    /\ Arrives(ReviewRequest("update2", u, h, r, rating))

\* DELETE /hotels/:id/reviews/:reviewId is received by the first copy
DeleteReview(u, h, r) ==
    /\ build = 1
    /\ r \in 1..(Len(reviews) + 1)
    /\ Arrives(ReviewRequest("delete", u, h, r, 0))

\* DELETE /hotels/:id/reviews/:reviewId is received by the second copy
DeleteReview2(u, h, r) ==
    /\ build = 2
    /\ r \in 1..(Len(reviews) + 1)
    /\ Arrives(ReviewRequest("delete2", u, h, r, 0))

\* The next call of request r is Review.create of GET /seed: the route has
\* drawn the rating before it
Draws(r) ==
    r.op = "seed" /\ r.k >= LastBooking /\ (r.k - LastBooking) % 3 = 0

\* Request i takes its next step
Advance(i, rnd) ==
    /\ LET x == step(Collections, now, zone, inflight[i], rnd) IN
       /\ Writes(x.db)
       /\ inflight' = Continue(inflight, i, x.req)
    /\ UNCHANGED <<now, origin, zone, build, budget>>

\* The call request i awaits has been served: the event loop resumes its
\* handler, which runs up to its next await or to its end
Resume(i) ==
    /\ i \in DOMAIN inflight
    /\ ~Draws(inflight[i])
    /\ Advance(i, NoDraw)

\* The same for Review.create of GET /seed, with the rating drawn
ResumeSeed(i, rnd) ==
    /\ i \in DOMAIN inflight
    /\ Draws(inflight[i])
    /\ Advance(i, rnd)

\* The customer pays on the processor's side: the intent succeeds there
IntentSucceeds(i) ==
    /\ i \in DOMAIN intents
    /\ intents[i].status = "requires_payment"
    /\ intents' = [intents EXCEPT ![i].status = "succeeded"]
    /\ UNCHANGED <<bookings, payments, now, inflight, origin, reviews, hotels, zone,
                   users, build, budget>>

\* POST /webhook/stripe.  The signature is verified before the handler's
\* first await, and verification fails on every request (bodyParserJson has
\* replaced the raw body): the handler answers without yielding
WebhookStripe(type, intentId, bookingId, sig) ==
    LET event == Event(type, intentId, bookingId)
        r == webhookStripe(bookings, payments, event, sig) IN
    /\ intentId \in IntentIds /\ bookingId \in BookingIds
    /\ sig = "stripe" => event \in ProcessorEvents(intents)
    /\ bookings' = r.bookings
    /\ payments' = r.payments
    /\ UNCHANGED <<intents, now, inflight, origin, reviews, hotels, zone,
                   users, build, budget>>

\* The requests sent while others are being handled: the two customers
\* book one stay of one room at hotel h1, pay, confirm and cancel the bookings
\* there are and review the hotel; the admin who created h1 changes price
\* and room count of a hotel, deletes one and adds one; somebody registers,
\* and somebody asks for the seed route
Customers == {"u1", "u2"}
Stay == <<180, 204>>
\* req.body.hotel: the fields of the edit form, and a body that names
\* averageRating
EditForm == [price |-> 150, totalRooms |-> "2"]
HotelForms == {EditForm, [averageRating |-> "2"]}
NewHotelPrice == 120
NewHotelRooms == {"", "2"}

Next ==
    \/ TickHalfDay
    \/ \E u \in Customers : BookHotel(u, "h1", Stay, "1")
    \/ \E u \in Customers, b \in 1..MaxDocs : BookingPayment(u, b, TRUE)
    \/ \E i \in IdRange : IntentSucceeds(i)
    \/ \E sig \in Signatures : WebhookStripe("payment_intent.succeeded", 1, 1, sig)
    \/ \E u \in Customers, b \in 1..MaxDocs : PaymentSuccess(u, b)
    \/ \E u \in Customers, b \in 1..MaxDocs : CancelBooking(u, b)
    \/ \E h \in HotelIds, f \in HotelForms : UpdateHotel("adm", h, f)
    \/ \E h \in HotelIds, f \in HotelForms : UpdateHotel2("adm", h, f)
    \/ \E h \in HotelIds : DeleteHotel("adm", h)
    \/ \E h \in HotelIds : DeleteHotel2("adm", h)
    \/ \E n \in NewHotelRooms, file \in BOOLEAN : CreateHotel("adm", NewHotelPrice, n, file)
    \/ \E a \in BOOLEAN : Register(a)
    \/ Seed
    \/ \E u \in Customers : AddReview(u, "h1", 5)
    \/ \E u \in Customers : UpdateReview(u, "h1", 1, 4)
    \/ \E u \in Customers : UpdateReview2(u, "h1", 1, 4)
    \/ \E u \in Users : DeleteReview(u, "h1", 1)
    \/ \E u \in Users : DeleteReview2(u, "h1", 1)
    \/ \E i \in 1..MaxInflight : Resume(i)
    \/ \E i \in 1..MaxInflight, rnd \in RatingDraws : ResumeSeed(i, rnd)

Spec == Init /\ [][Next]_vars

\* ======================================================================
\*   Bookings and payments alone, the requests not counted: booking,
\*   createIntent, webhook, fallback and cancel requests, and the change
\*   of a hotel's price and room count by its creator
\* ======================================================================
NextPay ==
    \/ TickHalfDay
    \/ \E u \in Customers : BookHotel(u, "h1", Stay, "1")
    \/ \E u \in Customers, b \in 1..MaxDocs : BookingPayment(u, b, TRUE)
    \/ \E i \in IdRange : IntentSucceeds(i)
    \/ \E ty \in EventTypes, i \in IdRange, b \in IdRange, sig \in Signatures :
          WebhookStripe(ty, i, b, sig)
    \/ \E u \in Customers, b \in 1..MaxDocs : PaymentSuccess(u, b)
    \/ \E u \in Customers, b \in 1..MaxDocs : CancelBooking(u, b)
    \/ UpdateHotel("adm", "h1", EditForm)
    \/ \E i \in 1..MaxInflight : Resume(i)

SpecPay == InitPay /\ [][NextPay]_vars

\* ======================================================================
\*   Booking requests over both hotels, more stays and more room counts
\* ======================================================================
BookUsers == {"u1"}                     \* one customer; admins are turned away in Spec
\* Stays in the past once the clock has ticked, of no length,
\* touching each other (at hour 204), of a day and a half, and apart from
\* each other
BookStays == {<<0, 24>>, <<180, 180>>, <<180, 204>>, <<204, 240>>}
BookRooms == {"0", "1", "1.5", "20e-1"}

\* Every request received has been answered.  (The recompute a handler
\* left running may still be in flight.)
Answered == \A i \in DOMAIN inflight : inflight[i].code # "none"

\* The requests of this specification are sent one after the other: a
\* request is received when the one before it has been answered
BookStay(u, h, stay, numberOfRooms) ==
    /\ Answered
    /\ Len(bookings) < MaxBookings
    /\ Arrives(BookRequest(u, h, stay[1], stay[2], numberOfRooms))

ConfirmStay(u, b) ==
    /\ Answered
    /\ b \in BookingIds \cup {NoId}
    /\ Arrives(Request("payment-success", u, b, NoEvent, "none", TRUE))

CancelStay(u, b) ==
    /\ Answered
    /\ b \in BookingIds
    /\ Arrives(Request("cancel", u, b, NoEvent, "none", TRUE))

NextBook ==
    \/ Tick
    \/ \E u \in BookUsers, h \in HotelIds, stay \in BookStays, n \in BookRooms :
          BookStay(u, h, stay, n)
    \/ \E b \in IdRange : ConfirmStay("u1", b)
    \/ \E b \in IdRange : CancelStay("u1", b)
    \/ Resume(1)

SpecBook == InitPay /\ [][NextBook]_vars

\* The same requests on a server in any of the time zones
SpecZones == InitZones /\ [][NextBook]_vars

\* ======================================================================
\*            Reviews and ratings, one request at a time
\* ======================================================================
\* The bookings the review requests find: u1 has stayed at both hotels, u2
\* at h1, and u2's booking of h2 is still unpaid
ReviewBookings ==
    <<Confirmed(NewBooking(Hotel("h1"), "u1", "h1", 180, 204, "1")),
      Confirmed(NewBooking(Hotel("h1"), "u2", "h1", 228, 252, "1")),
      Confirmed(NewBooking(Hotel("h2"), "u1", "h2", 180, 204, "1")),
      NewBooking(Hotel("h2"), "u2", "h2", 180, 204, "1")>>

ReviewUsers == {"u1", "u2"}
RatingInputs == {3, 5, 7}                \* Number(req.body.rating)
ReviewIds == 1..(Len(reviews) + 1)
ReviewIdRange == 1..(MaxReviews + 1)

InitReview ==
    /\ bookings = ReviewBookings
    /\ payments = <<>>
    /\ intents = <<>>
    /\ now = 0
    /\ inflight = <<>>
    /\ origin = [bookings |-> <<>>, payments |-> <<>>, intents |-> <<>>]
    /\ reviews = <<>>
    /\ hotels = NewHotels
    /\ zone = 0
    /\ users = NewUsers
    /\ build \in Builds
    /\ budget = NoLimit

\* The client sends a review request when its last request was answered
WriteReview(u, h, rating) ==
    /\ Answered
    /\ Len(reviews) < MaxReviews
    /\ AddReview(u, h, rating)

EditReview(u, h, r, rating) ==
    /\ Answered
    /\ UpdateReview(u, h, r, rating)

EditReview2(u, h, r, rating) ==
    /\ Answered
    /\ UpdateReview2(u, h, r, rating)

RemoveReview(u, h, r) ==
    /\ Answered
    /\ DeleteReview(u, h, r)

RemoveReview2(u, h, r) ==
    /\ Answered
    /\ DeleteReview2(u, h, r)

\* The users who send update and delete requests: the authors, and the
\* admin who created h1.  These requests name hotel h1 in their URL, and an
\* update submits a rating out of range
ReviewSenders == ReviewUsers \cup {"adm"}
EditHotels == {"h1"}
EditRatings == {7}

NextReview ==
    \/ \E u \in ReviewUsers, h \in HotelIds, n \in RatingInputs : WriteReview(u, h, n)
    \/ \E u \in ReviewUsers, h \in EditHotels, r \in ReviewIdRange, n \in EditRatings :
          EditReview(u, h, r, n)
    \/ \E u \in ReviewUsers, h \in EditHotels, r \in ReviewIdRange, n \in EditRatings :
          EditReview2(u, h, r, n)
    \/ \E u \in ReviewSenders, h \in EditHotels, r \in ReviewIdRange :
          RemoveReview(u, h, r)
    \/ \E u \in ReviewSenders, h \in EditHotels, r \in ReviewIdRange :
          RemoveReview2(u, h, r)
    \/ \E b \in DOMAIN ReviewBookings : ConfirmStay("u2", b)
    \/ CancelStay("u1", 1)
    \/ \E i \in 1..MaxInflight : Resume(i)

SpecReview == InitReview /\ [][NextReview]_vars

\* ------------------------------------------------------------ SpecConc
ConcUsers == {"u1", "u2"}

\* A booking of u1 awaiting payment; with or without a first payment attempt
\* that succeeded at the processor
ConcBooking == NewBooking(Hotel("h1"), "u1", "h1", 180, 204, "1")
ConcOrigins ==
    {[bookings |-> <<ConcBooking>>, payments |-> <<>>, intents |-> <<>>],
     [bookings |-> <<[ConcBooking EXCEPT !.paymentIntentId = 1]>>,
      payments |-> <<NewPayment(<<ConcBooking>>, 1, 1)>>,
      intents |-> <<[NewIntent(<<ConcBooking>>, 1) EXCEPT !.status = "succeeded"]>>]}

InitConc ==
    /\ origin \in ConcOrigins
    /\ reviews = <<>>
    /\ hotels = NewHotels
    /\ zone = 0
    /\ users = NewUsers
    /\ build = 1
    /\ budget = NoLimit
    /\ bookings = origin.bookings
    /\ payments = origin.payments
    /\ intents = origin.intents
    /\ now = 0
    /\ inflight = <<>>

\* A request is received and waits for its first call; the requests stay
\* listed when their handlers have ended
Receive(r) ==
    /\ Len(inflight) < MaxRequests
    /\ inflight' = Append(inflight, r)
    /\ UNCHANGED <<bookings, payments, intents, now, origin, reviews, hotels, zone,
                   users, build, budget>>

StartPaymentSuccess(u, b) ==
    /\ u \in Users
    /\ Receive(Request("payment-success", u, b, NoEvent, "none", TRUE))

StartWebhook(type, intentId, bookingId, sig) ==
    LET event == Event(type, intentId, bookingId) IN
    /\ sig = "stripe" => event \in ProcessorEvents(intents)
    /\ Receive(Request("webhook", "none", NoId, event, sig, TRUE))

StartBookingPayment(u, b, gatewayOk) ==
    /\ Receive(Request("payment", u, b, NoEvent, "none", gatewayOk))

StartCancel(u, b) ==
    /\ u \in Users
    /\ Receive(Request("cancel", u, b, NoEvent, "none", TRUE))

\* The handler of request r waits for a call, and the promise of that call
\* settles.  Database calls are answered.  The handler sets no timer of its
\* own around stripe.paymentIntents.create and builds the client without
\* options: while the processor stays silent the promise settles only if
\* the client library gives the call up, which is the library's affair
\* (r.clientTimeout)
Settled(r) ==
    /\ r.pc # "done"
    /\ (r.op = "payment" /\ r.pc = "create-intent" /\ r.silent) => r.clientTimeout

Step(i) ==
    /\ i \in DOMAIN inflight
    /\ Settled(inflight[i])
    /\ LET x == step(Collections, now, zone, inflight[i], NoDraw) IN
       /\ Writes(x.db)
       /\ inflight' = [inflight EXCEPT ![i] = x.req]
    /\ UNCHANGED <<now, origin, zone, build, budget>>

NextConc ==
    \/ \E u \in ConcUsers : StartPaymentSuccess(u, 1)
    \/ \E sig \in Signatures :
          StartWebhook("payment_intent.succeeded", 1, 1, sig)
    \/ \E ok \in BOOLEAN : StartBookingPayment("u1", 1, ok)
    \/ StartCancel("u1", 1)
    \/ \E i \in 1..MaxRequests : Step(i)

SpecConc == InitConc /\ [][NextConc]_vars

\* The same requests, with the event loop resuming every handler whose
\* awaited promise has settled: weak fairness of each request's next step.
\* Whether a request is sent at all is left to its sender
SpecConcFair ==
    /\ InitConc
    /\ [][NextConc]_vars
    /\ \A i \in 1..MaxRequests : WF_vars(Step(i))

\* --------------------------------------------------------- SpecGateway
\* Payment requests whose intent-creation call the processor answers, fails
\* or never answers, next to a cancellation.  The event loop resumes every
\* handler whose awaited promise has settled: weak fairness of each step.
\* The client library in use either gives up a call that is not answered
\* (clientTimeout) or keeps waiting
StartSilentPayment(u, b, clientTimeout) ==
    /\ Receive([Request("payment", u, b, NoEvent, "none", TRUE)
                   EXCEPT !.silent = TRUE, !.clientTimeout = clientTimeout])

NextGateway ==
    \/ \E ok \in BOOLEAN : StartBookingPayment("u1", 1, ok)
    \/ \E c \in BOOLEAN : StartSilentPayment("u1", 1, c)
    \/ \E u \in ConcUsers : StartPaymentSuccess(u, 1)
    \/ StartCancel("u1", 1)
    \/ \E i \in 1..MaxRequests : Step(i)

SpecGateway ==
    /\ InitConc
    /\ [][NextGateway]_vars
    /\ \A i \in 1..MaxRequests : WF_vars(Step(i))

\* ======================================================================
\*   Concurrent review requests: one step per awaited database call
\* ======================================================================
\* u2's review of h1 (3 stars), written before the requests arrive
FirstReview ==
    addReview(<<>>, NewHotels, ReviewBookings, "u2", "h1", 3)

InitReviewConc ==
    /\ users = NewUsers
    /\ build \in Builds
    /\ budget = NoLimit
    /\ bookings = ReviewBookings
    /\ payments = <<>>
    /\ intents = <<>>
    /\ now = 0
    /\ inflight = <<>>
    /\ origin = [bookings |-> <<>>, payments |-> <<>>, intents |-> <<>>]
    /\ \/ reviews = <<>> /\ hotels = NewHotels
       \/ reviews = FirstReview.reviews /\ hotels = FirstReview.hotels
    /\ zone = 0

ReceiveReview(q) ==
    /\ Len(inflight) < MaxReviewRequests
    /\ inflight' = Append(inflight, q)
    /\ UNCHANGED <<bookings, payments, intents, now, origin, reviews, hotels, zone,
                   users, build, budget>>

StartAddReview(u, h, rating) ==
    /\ u \in Users
    /\ ReceiveReview(ReviewRequest("create", u, h, 0, rating))

StartUpdateReview(u, h, r, rating) ==
    /\ build = 1
    /\ ReceiveReview(ReviewRequest("update", u, h, r, rating))

StartUpdateReview2(u, h, r, rating) ==
    /\ build = 2
    /\ ReceiveReview(ReviewRequest("update2", u, h, r, rating))

StartDeleteReview(u, h, r) ==
    /\ build = 1
    /\ ReceiveReview(ReviewRequest("delete", u, h, r, 0))

StartDeleteReview2(u, h, r) ==
    /\ build = 2
    /\ ReceiveReview(ReviewRequest("delete2", u, h, r, 0))

ReviewStep(i) ==
    /\ i \in DOMAIN inflight
    /\ inflight[i].pc # "done"
    /\ LET x == step(Collections, now, zone, inflight[i], NoDraw) IN
       /\ Writes(x.db)
       /\ inflight' = [inflight EXCEPT ![i] = x.req]
    /\ UNCHANGED <<now, origin, zone, build, budget>>

NextReviewConc ==
    \/ StartAddReview("u1", "h1", 5)
    \/ StartUpdateReview("u2", "h1", 1, 5)
    \/ StartUpdateReview2("u2", "h1", 1, 5)
    \/ StartDeleteReview("u2", "h1", 1)
    \/ StartDeleteReview2("u2", "h1", 1)
    \/ \E i \in 1..MaxReviewRequests : ReviewStep(i)

SpecReviewConc == InitReviewConc /\ [][NextReviewConc]_vars

\* ======================================================================
\*                               CLAIMS
\* ======================================================================

\* The intervals a committed-room count is asked for
Intervals == StayInputs \cup {<<bookings[b].checkInDate, bookings[b].checkOutDate>> :
                                b \in DOMAIN bookings}

\* C1: for every hotel and every interval, the rooms of the hotel's
\* confirmed bookings overlapping the interval never exceed hotel.totalRooms
\* (two bookings for the last room are never both confirmed).
C1_NoOverbooking ==
    \A h \in HotelIds : \A iv \in Intervals :
        ~Greater(Whole(bookedRooms(bookings, h, iv[1], iv[2])), hotels[h].totalRooms)

\* C2: a booking is confirmed/completed only if the processor reported
\* success for a payment intent created for that booking.
C2_ConfirmedOnlyIfPaid ==
    \A b \in DOMAIN bookings :
        (bookings[b].status = "confirmed" /\ bookings[b].paymentStatus = "completed")
        => \E i \in DOMAIN intents : /\ intents[i].bookingId = b
                                     /\ intents[i].status = "succeeded"

\* C3: cancelled is terminal: no step changes the status of a booking that
\* is cancelled, as long as the booking is there.
C3_CancelledTerminal ==
    [][\A b \in DOMAIN bookings :
          bookings[b].status = "cancelled"
              => bookings'[b].status \in {"cancelled", "deleted"}]_vars

\* The payment-success events the processor sends for its succeeded intents
SucceededEvents ==
    {e \in ProcessorEvents(intents) : e.type = "payment_intent.succeeded"}

PaymentsOf(b) == matchBooking(payments, b)
SucceededPaymentsOf(b) == {i \in PaymentsOf(b) : payments[i].status = "succeeded"}

\* C4: reconciliation is idempotent: a payment-success confirmation (the
\* owner's fallback request, a webhook request, the handling of a verified
\* event) applied twice leaves the same Booking and Payment rows as applied
\* once.
C4_Idempotent ==
    /\ \A b \in DOMAIN bookings :
         LET u == bookings[b].user
             once == paymentSuccess(bookings, payments, u, b)
             twice == paymentSuccess(once.bookings, once.payments, u, b)
         IN  twice.bookings = once.bookings /\ twice.payments = once.payments
    /\ \A e \in AnyEvents, sig \in Signatures :
         LET once == webhookStripe(bookings, payments, e, sig)
             twice == webhookStripe(once.bookings, once.payments, e, sig)
         IN  twice.bookings = once.bookings /\ twice.payments = once.payments
    /\ \A e \in SucceededEvents :
         LET once == handleEvent(bookings, payments, e)
             twice == handleEvent(once.bookings, once.payments, e)
         IN  twice.bookings = once.bookings /\ twice.payments = once.payments

\* A booking with two Payment records, confirmed by the fallback, the
\* second attempt still pending
C4_Witness ==
    \E b \in DOMAIN bookings :
        /\ Cardinality(PaymentsOf(b)) >= 2
        /\ bookings[b].status = "confirmed"
        /\ Cardinality(SucceededPaymentsOf(b)) = 1
        /\ \E i \in PaymentsOf(b) : payments[i].status = "pending"

\* C5: each booking has at most one Payment record with status succeeded.
C5_AtMostOneSucceeded ==
    \A b \in DOMAIN bookings : Cardinality(SucceededPaymentsOf(b)) <= 1

\* createIntent ran twice for a booking, an intent of it succeeded at the
\* processor, and the processor's webhook and the owner's fallback were both
\* delivered and answered
C5_Witness ==
    \E b \in DOMAIN bookings :
        /\ Cardinality(PaymentsOf(b)) >= 2
        /\ \E i \in DOMAIN intents :
              intents[i].bookingId = b /\ intents[i].status = "succeeded"
        /\ \E i, j \in DOMAIN inflight :
              /\ inflight[i].op = "webhook" /\ inflight[i].sig = "stripe"
              /\ inflight[i].event.bookingId = b /\ inflight[i].pc = "done"
              /\ inflight[j].op = "payment-success" /\ inflight[j].b = b
              /\ inflight[j].code = "success"
        /\ bookings[b].status = "confirmed"
        /\ Cardinality(SucceededPaymentsOf(b)) = 1

\* What the two confirmation paths are compared on
StatusView(r) ==
    [bookings |-> [b \in DOMAIN r.bookings |->
                     <<r.bookings[b].status, r.bookings[b].paymentStatus>>],
     payments |-> [i \in DOMAIN r.payments |-> r.payments[i].status]]

\* C6: for a booking with pending Payment records whose latest intent
\* succeeded, the signed webhook alone, the owner's fallback alone, and both
\* in either order end in the same booking and Payment statuses.
C6_PathsConverge ==
    \A b \in DOMAIN bookings :
        (/\ PaymentsOf(b) # {}
         /\ \A i \in PaymentsOf(b) : payments[i].status = "pending"
         /\ bookings[b].paymentIntentId # NoIntent
         /\ intents[bookings[b].paymentIntentId].status = "succeeded")
        => LET e == Event("payment_intent.succeeded", bookings[b].paymentIntentId, b)
               u == bookings[b].user
               W == webhookStripe(bookings, payments, e, "stripe")
               F == paymentSuccess(bookings, payments, u, b)
               WF == paymentSuccess(W.bookings, W.payments, u, b)
               FW == webhookStripe(F.bookings, F.payments, e, "stripe")
           IN  /\ StatusView(W) = StatusView(F)
               /\ StatusView(WF) = StatusView(F)
               /\ StatusView(FW) = StatusView(F)

\* C8: a webhook request that fails signature verification (any request not
\* signed by the processor among them) changes no Booking and no Payment row
\* and is answered 400.
C8_FailClosed ==
    \A e \in AnyEvents, sig \in Signatures :
        LET v == constructEvent(expressRaw(bodyParserJson(RawBody(e))), sig)
            r == webhookStripe(bookings, payments, e, sig)
        IN  (sig = "forged" \/ ~v.ok)
            => /\ r.bookings = bookings
               /\ r.payments = payments
               /\ r.resp.code = "400"

\* A forged payment-success event names a pending booking and its pending
\* Payment record, and is refused
C8_Witness ==
    \E e \in AnyEvents :
        /\ e.type = "payment_intent.succeeded"
        /\ Exists(bookings, e.bookingId)
        /\ bookings[e.bookingId].status = "pending"
        /\ \E i \in PaymentsOf(e.bookingId) :
              payments[i].paymentIntentId = e.id /\ payments[i].status = "pending"
        /\ webhookStripe(bookings, payments, e, "forged").resp.code = "400"

\* C9: a payment_intent.succeeded event signed by the processor passes
\* verification; the handler answers {received: true}, confirms the booking
\* of metadata.bookingId, marks the Payment record of the event's intent id
\* succeeded and changes no other row.
C9_SignedEventApplied ==
    \A e \in SucceededEvents :
        LET r == webhookStripe(bookings, payments, e, "stripe") IN
        /\ r.resp.code = "received"
        /\ DOMAIN r.bookings = DOMAIN bookings
        /\ DOMAIN r.payments = DOMAIN payments
        /\ \A b \in DOMAIN bookings :
              IF b = e.bookingId
              THEN r.bookings[b] = [bookings[b] EXCEPT !.status = "confirmed",
                                                       !.paymentStatus = "completed"]
              ELSE r.bookings[b] = bookings[b]
        /\ \A i \in DOMAIN payments :
              IF payments[i].paymentIntentId = e.id
              THEN r.payments[i] = [payments[i] EXCEPT !.status = "succeeded"]
              ELSE r.payments[i] = payments[i]

\* C10: a cancel, a fallback confirmation or a createIntent by a user who is
\* not the booking's owner leaves the Booking and Payment collections (and
\* the processor's intents) as they are.
C10_NonOwnerChangesNothing ==
    \A b \in DOMAIN bookings : \A u \in Requesters \ {bookings[b].user} :
        /\ cancelBooking(bookings, now, zone, u, b).bookings = bookings
        /\ LET r == paymentSuccess(bookings, payments, u, b)
           IN  r.bookings = bookings /\ r.payments = payments
        /\ \A ok \in BOOLEAN :
             LET r == bookingPayment(bookings, payments, intents, u, b, ok)
             IN  r.bookings = bookings /\ r.payments = payments /\ r.intents = intents

\* Another user's requests on a booking its owner could cancel, confirm and
\* pay are turned away
C10_Witness ==
    \E b \in DOMAIN bookings : \E u \in Requesters \ {bookings[b].user} :
        /\ ~isAdminUser(u)
        /\ bookings[b].status = "pending"
        /\ cancelBooking(bookings, now, zone, bookings[b].user, b).resp.code = "cancelled"
        /\ cancelBooking(bookings, now, zone, u, b).resp.code = "redirect"
        /\ paymentSuccess(bookings, payments, u, b).resp.code = "redirect"
        /\ bookingPayment(bookings, payments, intents, u, b, TRUE).resp.code = "403"
        /\ \E c \in DOMAIN bookings : bookings[c].user = u

\* ---------------------------------------------------------------- C7
AllDone == \A i \in DOMAIN inflight : inflight[i].pc = "done"

Orders == {p \in [DOMAIN inflight -> DOMAIN inflight] :
             \A i, j \in DOMAIN inflight : p[i] = p[j] => i = j}

\* The collections after the requests received are handled one after the
\* other, in the order p, from db
RECURSIVE SeqRun(_, _, _)
SeqRun(db, p, k) ==
    IF k > Len(inflight) THEN db
    ELSE SeqRun(handle(db, now, zone, inflight[p[k]]), p, k + 1)

Current == [bookings |-> bookings, payments |-> payments, intents |-> intents]

\* The owner's fallback and the processor's signed webhook for booking 1 were
\* both received, no cancel was, and at most one createIntent
ConfirmedTwice ==
    /\ \E i \in DOMAIN inflight :
          inflight[i].op = "payment-success" /\ inflight[i].u = bookings[1].user
    /\ \E i \in DOMAIN inflight :
          /\ inflight[i].op = "webhook" /\ inflight[i].sig = "stripe"
          /\ inflight[i].event.type = "payment_intent.succeeded"
    /\ \A i \in DOMAIN inflight : inflight[i].op # "cancel"
    /\ \A i, j \in DOMAIN inflight :
          inflight[i].op = "payment" /\ inflight[j].op = "payment" => i = j

\* C7: once the webhook handler, the fallback handler (and a createIntent)
\* that ran concurrently on a booking have all answered, the booking is
\* confirmed/completed, the confirmations created and deleted no Payment
\* record, and the Booking and Payment rows are those of handling the same
\* requests one after the other in some order.
C7_Serializable ==
    (AllDone /\ ConfirmedTwice)
    => /\ bookings[1].status = "confirmed"
       /\ bookings[1].paymentStatus = "completed"
       /\ Len(payments) = Len(origin.payments)
            + Cardinality({i \in DOMAIN inflight : inflight[i].code = "client-secret"})
       /\ \E p \in Orders : SeqRun(origin, p, 1) = Current

\* The webhook was answered while the fallback, having saved the booking, and
\* a createIntent, having saved its intent id, are both still under way
C7_Witness ==
    /\ ConfirmedTwice
    /\ \E i, j, k \in DOMAIN inflight :
          /\ inflight[i].op = "payment-success" /\ inflight[i].pc = "update-payment"
          /\ inflight[j].op = "payment" /\ inflight[j].pc = "create-payment"
          /\ inflight[k].op = "webhook" /\ inflight[k].pc = "done"
    /\ bookings[1].status = "confirmed"
    /\ bookings[1].paymentIntentId = 2

\* ======================================================================
\*                 CLAIMS on booking requests and cancellation
\* ======================================================================
\* The wall clock of the server shows, at check-in, a time more than seven
\* days after the time it shows at t
MoreThanAWeekAhead(t, checkIn) ==
    localTime(zone, t) + 7 * DayLen < localTime(zone, checkIn)

\* C11: a cancel request by the owner on a pending or confirmed booking sets
\* the status to cancelled (and changes nothing else) if and only if
\* now + 7 days < checkInDate, the days being days of the server's
\* calendar; otherwise it is rejected with the one-week message and the
\* Booking collection is unchanged.
C11_CancelWindow ==
    \A b \in DOMAIN bookings :
        bookings[b].status \in {"pending", "confirmed"} =>
            LET r == cancelBooking(bookings, now, zone, bookings[b].user, b) IN
            IF MoreThanAWeekAhead(now, bookings[b].checkInDate)
            THEN /\ r.resp.code = "cancelled"
                 /\ r.bookings = [bookings EXCEPT ![b].status = "cancelled"]
            ELSE /\ r.resp.code = "window-closed"
                 /\ r.bookings = bookings

\* A confirmed booking exactly 7 days before its check-in, whose cancel is
\* rejected, next to a booking 8 days before its check-in that was cancelled
C11_Witness ==
    \E b, c \in DOMAIN bookings :
        /\ bookings[b].status = "confirmed"
        /\ localTime(zone, bookings[b].checkInDate)
              = localTime(zone, now) + 7 * DayLen
        /\ cancelBooking(bookings, now, zone, bookings[b].user, b).resp.code
              = "window-closed"
        /\ bookings[c].status = "cancelled"
        /\ localTime(zone, bookings[c].checkInDate)
              = localTime(zone, now) + 8 * DayLen

\* C12: a cancel request by the owner on a booking that is already cancelled
\* is answered "already cancelled", inside the one-week window as well as
\* outside it, and changes no Booking (the handler writes no Payment).
C12_AlreadyCancelled ==
    \A b \in DOMAIN bookings :
        bookings[b].status = "cancelled" =>
            LET r == cancelBooking(bookings, now, zone, bookings[b].user, b) IN
            /\ r.resp.code = "already-cancelled"
            /\ r.bookings = bookings

\* A cancelled booking with a Payment record, now inside the one-week window
C12_Witness ==
    \E b \in DOMAIN bookings :
        /\ bookings[b].status = "cancelled"
        /\ bookings[b].checkInDate <= oneWeekFromNow(now, zone)
        /\ matchBooking(payments, b) # {}
        /\ cancelBooking(bookings, now, zone, bookings[b].user, b).resp.code = "already-cancelled"

\* What a booking form can carry: every text of RoomTexts, and the stays of
\* the requests made plus one that ends before it starts
FormRooms == RoomTexts
FormStays == BookStays \cup {<<204, 180>>}

\* The committed rooms as the contract states them: the sum, over the
\* first k bookings, of numberOfRooms of those of hotel h that are confirmed
\* and have checkInDate <= checkOut and checkOutDate >= checkIn
RECURSIVE Committed(_, _, _, _)
Committed(h, checkIn, checkOut, k) ==
    IF k = 0 THEN 0
    ELSE Committed(h, checkIn, checkOut, k - 1)
         + (IF /\ bookings[k].hotel = h
               /\ bookings[k].status = "confirmed"
               /\ bookings[k].checkInDate <= checkOut
               /\ bookings[k].checkOutDate >= checkIn
            THEN bookings[k].numberOfRooms ELSE 0)

\* C13: for a booking request on hotel h for [checkIn, checkOut] the
\* available rooms the handler computes (and reports) are h.totalRooms
\* minus the rooms of the confirmed bookings of h with checkInDate <=
\* checkOut and checkOutDate >= checkIn; stays touching on a day count,
\* bookings of other hotels do not.
C13_CommittedRooms ==
    \A h \in HotelIds, stay \in FormStays :
        LET free == Minus(hotels[h].totalRooms,
                          Committed(h, stay[1], stay[2], Len(bookings))) IN
        /\ availableRooms(bookings, hotels[h], h, stay[1], stay[2]) = free
        /\ \A n \in FormRooms :
             LET r == bookHotel(bookings, hotels, now, "u1", h, stay[1], stay[2], n) IN
             r.resp.code = "only-available" => r.resp.info = free

\* The one room of h1 is taken by a confirmed stay ending at hour 204, h2
\* has a confirmed booking over the same days, and a request for h1 from
\* hour 204 on is told that 0 rooms are available
C13_Witness ==
    \E b, c \in DOMAIN bookings :
        /\ bookings[b].hotel = "h1" /\ bookings[b].status = "confirmed"
        /\ bookings[b].checkOutDate = 204
        /\ bookings[c].hotel = "h2" /\ bookings[c].status = "confirmed"
        /\ Overlaps(bookings[c], 204, 240)
        /\ bookHotel(bookings, hotels, now, "u1", "h1", 204, 240, "1").resp
             = Response("book", "only-available", Whole(0))

\* The confirmed bookings of hotel h, in insertion order
ConfirmedOf(h) ==
    SelectSeq(bookings, LAMBDA b : b.hotel = h /\ b.status = "confirmed")

\* C14: pending and cancelled bookings reserve nothing: the answer to a
\* booking request (accepted, or rejected and with which count) is the one
\* it would get if the collection held only the confirmed bookings of the
\* hotel.
C14_OnlyConfirmedReserve ==
    \A u \in Requesters, h \in BookHotels, stay \in StayInputs, n \in BookRooms :
        LET r == bookHotel(bookings, hotels, now, u, h, stay[1], stay[2], n)
            c == bookHotel(ConfirmedOf(h), hotels, now, u, h, stay[1], stay[2], n)
        IN  /\ r.resp.code = c.resp.code
            /\ r.resp.code = "only-available" => r.resp.info = c.resp.info

\* Two users each hold a pending booking for the one room of h1 over the
\* same days, and a further request for it would still be accepted
C14_Witness ==
    \E b, c \in DOMAIN bookings :
        /\ bookings[b].user # bookings[c].user
        /\ bookings[b].hotel = "h1" /\ bookings[c].hotel = "h1"
        /\ bookings[b].status = "pending" /\ bookings[c].status = "pending"
        /\ bookings[b].checkInDate = bookings[c].checkInDate
        /\ bookings[b].checkOutDate = bookings[c].checkOutDate
        /\ bookHotel(bookings, hotels, now, "u1", "h1", bookings[b].checkInDate,
                     bookings[b].checkOutDate, "1").resp.code = "redirect-payment"

\* A request whose dates pass the validation at time now
ValidStay(stay) == stay[1] >= now /\ stay[2] > stay[1]

\* C15: a booking request (valid dates, not by an admin) for more rooms than
\* are available is rejected with the exact available count and leaves the
\* Booking collection as it is; a request for at most the available rooms
\* is not rejected for availability.
C15_InsufficientAvailability ==
    \A h \in HotelIds, stay \in {s \in FormStays : ValidStay(s)}, n \in FormRooms :
        LET free == Minus(hotels[h].totalRooms,
                          Committed(h, stay[1], stay[2], Len(bookings)))
            r == bookHotel(bookings, hotels, now, "u1", h, stay[1], stay[2], n)
        IN  IF Greater(ToNumber(n), free)
            THEN /\ r.resp = Response("book", "only-available", free)
                 /\ r.bookings = bookings
            ELSE r.resp.code # "only-available"

\* One of the two rooms of h2 is held by a confirmed booking: a request for
\* two rooms over its days is told that 1 is available, a request for one
\* room is accepted
C15_Witness ==
    \E b \in DOMAIN bookings :
        /\ bookings[b].hotel = "h2" /\ bookings[b].status = "confirmed"
        /\ bookings[b].checkInDate >= now
        /\ bookHotel(bookings, hotels, now, "u1", "h2", bookings[b].checkInDate,
                     bookings[b].checkOutDate, "2").resp
             = Response("book", "only-available", Whole(1))
        /\ bookHotel(bookings, hotels, now, "u1", "h2", bookings[b].checkInDate,
                     bookings[b].checkOutDate, "1").resp.code = "redirect-payment"

\* A booking request with checkIn < now or checkOut <= checkIn is answered
\* "Invalid dates" and creates nothing
RejectsInvalidDates ==
    \A h \in HotelIds, stay \in FormStays, n \in FormRooms :
        (stay[1] < now \/ stay[2] <= stay[1]) =>
            LET r == bookHotel(bookings, hotels, now, "u1", h, stay[1], stay[2], n) IN
            r.resp.code = "invalid-dates" /\ r.bookings = bookings

\* Every Booking a request creates ends after it starts and starts no
\* earlier than the time of the request; so do the Bookings there are
CreatesValidDates ==
    /\ \A h \in HotelIds, stay \in FormStays, n \in FormRooms :
          LET r == bookHotel(bookings, hotels, now, "u1", h, stay[1], stay[2], n) IN
          \A b \in DOMAIN r.bookings \ DOMAIN bookings :
              /\ r.bookings[b].checkOutDate > r.bookings[b].checkInDate
              /\ r.bookings[b].checkInDate >= now
    /\ \A b \in DOMAIN bookings :
          bookings[b].checkOutDate > bookings[b].checkInDate

\* C16: a booking request with checkIn < now or checkOut <= checkIn is
\* rejected and creates no Booking, so every Booking created has
\* checkOutDate > checkInDate and checkInDate >= now when it is created.
C16_ValidDates == RejectsInvalidDates /\ CreatesValidDates

\* A booking made for day 0 when that was today; the clock has moved on and
\* the same request, and one for a stay of no length, are now rejected
C16_Witness ==
    /\ now > 0
    /\ \E b \in DOMAIN bookings : bookings[b].checkInDate = 0
    /\ bookHotel(bookings, hotels, now, "u1", "h2", 0, 24, "1").resp.code = "invalid-dates"
    /\ bookHotel(bookings, hotels, now, "u1", "h2", 180, 180, "1").resp.code = "invalid-dates"

\* C17: every Booking stores totalPrice = hotel.price x numberOfRooms x
\* nights, with the stored numberOfRooms and nights = the days from
\* check-in to check-out, a partial day counting as a whole one.
C17_TotalPrice ==
    \A b \in DOMAIN bookings :
        bookings[b].totalPrice
          = hotels[bookings[b].hotel].price * bookings[b].numberOfRooms
              * CeilDiv(bookings[b].checkOutDate - bookings[b].checkInDate, DayLen)

\* A step that creates a Booking creates it pending/pending with no payment
\* intent, and creates or changes no Payment and no intent
CreatesPending ==
    \A b \in DOMAIN bookings' \ DOMAIN bookings :
        /\ bookings'[b].status = "pending"
        /\ bookings'[b].paymentStatus = "pending"
        /\ bookings'[b].paymentIntentId = NoIntent
        /\ payments' = payments
        /\ intents' = intents

\* The step is one of the handler of GET /seed
SeedSteps ==
    \E i \in DOMAIN inflight :
        /\ inflight[i].op = "seed"
        /\ \A j \in DOMAIN inflight' : inflight'[j] # inflight[i]

\* C18: every Booking created through a booking request (every Booking
\* that is not one of the seed's) starts with status pending, paymentStatus
\* pending and no payment-intent reference, and the request creates no
\* Payment record.
C18_CreatedPending == [][SeedSteps \/ CreatesPending]_vars

\* A booking as it was created, next to an earlier booking that has been
\* paid and confirmed since
C18_Witness ==
    \E b \in DOMAIN bookings :
        /\ b > 1
        /\ bookings[b].status = "pending"
        /\ bookings[b].paymentStatus = "pending"
        /\ bookings[b].paymentIntentId = NoIntent
        /\ matchBooking(payments, b) = {}
        /\ bookings[1].status = "confirmed"

\* The intents the processor created for booking b: one per successful
\* createIntent call
IntentsOf(b) == {i \in DOMAIN intents : intents[i].bookingId = b}

\* The createIntent requests for booking b whose intent exists and whose
\* Payment record is still to be created
Recording(b) ==
    {i \in DOMAIN inflight :
        /\ inflight[i].op = "payment" /\ inflight[i].b = b
        /\ inflight[i].pc \in {"save", "create-payment"}}

\* C19: a successful createIntent call by the owner adds exactly one Payment
\* (pending, amount = booking.totalPrice, the new intent id, that booking),
\* charges totalPrice x 100 minor units at the processor, sets
\* booking.paymentIntentId to the new intent id and changes nothing else;
\* n calls leave n Payment records referencing the booking (a call that has
\* its intent and has not answered yet is about to create its record).
C19_CreateIntent ==
    \A b \in DOMAIN bookings :
        /\ Cardinality(PaymentsOf(b)) + Cardinality(Recording(b))
             = Cardinality(IntentsOf(b))
        /\ LET r == bookingPayment(bookings, payments, intents,
                                   bookings[b].user, b, TRUE)
               id == Len(intents) + 1
           IN  /\ r.resp.code = "client-secret"
               /\ r.payments = Append(payments,
                      [booking |-> b, user |-> bookings[b].user,
                       amount |-> bookings[b].totalPrice,
                       paymentIntentId |-> id, status |-> "pending"])
               /\ Len(r.intents) = id
               /\ SubSeq(r.intents, 1, Len(intents)) = intents
               /\ r.intents[id].amount = bookings[b].totalPrice * 100
               /\ r.intents[id].bookingId = b
               /\ r.bookings = [bookings EXCEPT ![b].paymentIntentId = id]

\* After two createIntent calls on a booking: two pending Payment records
\* referencing it, the booking carrying the second intent's id and still
\* pending
C19_Witness ==
    \E b \in DOMAIN bookings :
        /\ Cardinality(PaymentsOf(b)) = 2
        /\ \A i \in PaymentsOf(b) :
              payments[i].status = "pending"
              /\ payments[i].amount = bookings[b].totalPrice
        /\ bookings[b].paymentIntentId = 2
        /\ bookings[b].status = "pending" /\ bookings[b].paymentStatus = "pending"

\* Payment-success events signed by the processor whose metadata names a
\* booking id that no Booking has
UnmatchedEvents ==
    {Event("payment_intent.succeeded", i, Len(bookings) + 1) : i \in IntentIds}

\* C20: a verified payment-success event whose metadata booking id matches
\* no booking changes no Booking and is answered with success
\* ({received: true}).
C20_UnmatchedEventAcknowledged ==
    \A e \in UnmatchedEvents :
        LET r == webhookStripe(bookings, payments, e, "stripe") IN
        /\ r.bookings = bookings
        /\ r.resp.code = "received"

\* ======================================================================
\*                     CLAIMS on reviews and ratings
\* ======================================================================
\* u has a booking on h that is confirmed and paid
Qualifies(u, h) ==
    \E b \in DOMAIN bookings :
        /\ bookings[b].hotel = h /\ bookings[b].user = u
        /\ bookings[b].status = "confirmed"
        /\ bookings[b].paymentStatus = "completed"

\* C21: a review request for hotel h by user u creates a Review only if u
\* has, at that time, a booking on h with status confirmed and paymentStatus
\* completed; without one the request is rejected, creates no Review and
\* changes no rating.
C21_VerifiedStay ==
    \A u \in Users, h \in HotelIds, n \in RatingInputs :
        LET x == addReview(reviews, hotels, bookings, u, h, n) IN
        /\ x.reviews # reviews => Qualifies(u, h)
        /\ ~Qualifies(u, h) =>
              /\ x.resp.code \in {"not-booked", "own-hotel", "admin"}
              /\ x.reviews = reviews
              /\ x.hotels = hotels

\* u1 has reviewed h2 after a stay; u1's booking of h1 is cancelled and
\* u2's booking of h2 unpaid, and their review requests for these hotels are
\* rejected
C21_Witness ==
    /\ \E r \in DOMAIN reviews : reviews[r].live /\ reviews[r].author = "u1"
    /\ existingReview(reviews, hotels, "u1", "h2")
    /\ bookings[1].status = "cancelled"
    /\ bookings[4].status = "pending"
    /\ addReview(reviews, hotels, bookings, "u1", "h1", 5).resp.code = "not-booked"
    /\ addReview(reviews, hotels, bookings, "u2", "h2", 5).resp.code = "not-booked"
    /\ addReview(reviews, hotels, bookings, "u2", "h1", 5).resp.code = "redirect"

\* The reviews of hotel h: the documents its array still leads to
ReviewsOf(h) == populateReviews(reviews, hotels[h].reviews)

\* C22: each hotel has at most one review per author, also when two review
\* requests of one user for one hotel are handled concurrently.
C22_OneReviewPerAuthor ==
    \A h \in HotelIds :
        \A i, j \in DOMAIN ReviewsOf(h) :
            reviews[ReviewsOf(h)[i]].author = reviews[ReviewsOf(h)[j]].author
                => i = j

\* Sum and number of the ratings of the reviews that the first k ids of a
\* hotel's array lead to
RECURSIVE RatingSum(_, _, _)
RatingSum(rv, ids, k) ==
    IF k = 0 THEN 0
    ELSE RatingSum(rv, ids, k - 1)
         + (IF ids[k] \in DOMAIN rv /\ rv[ids[k]].live THEN rv[ids[k]].rating ELSE 0)

RECURSIVE RatingCount(_, _, _)
RatingCount(rv, ids, k) ==
    IF k = 0 THEN 0
    ELSE RatingCount(rv, ids, k - 1)
         + (IF ids[k] \in DOMAIN rv /\ rv[ids[k]].live THEN 1 ELSE 0)

\* avg is sum(ratings)/count over the review set of the hotel document doc,
\* or 0 when the set is empty
IsMean(avg, rv, doc) ==
    LET s == RatingSum(rv, doc.reviews, Len(doc.reviews))
        c == RatingCount(rv, doc.reviews, Len(doc.reviews))
    IN  IF c = 0 THEN avg = <<0, 1>> ELSE avg[1] * c = s * avg[2]

\* C23: requests handled one at a time: when a review create, update or
\* delete on hotel h (either definition of the handler) has gone through and
\* its recompute has finished, the averageRating of h is sum(ratings)/count
\* over the reviews h then has, or 0 when it has none.
C23_RatingIsMean ==
    \A u \in ReviewUsers, h \in HotelIds :
        /\ \A n \in RatingInputs :
             LET x == addReview(reviews, hotels, bookings, u, h, n) IN
             x.resp.code = "redirect" =>
                 IsMean(x.hotels[h].averageRating, x.reviews, x.hotels[h])
        /\ \A r \in DOMAIN reviews :
             /\ \A n \in RatingInputs :
                  LET x == updateReview(reviews, hotels, u, h, r, n) IN
                  x.resp.code = "redirect" =>
                      IsMean(x.hotels[h].averageRating, x.reviews, x.hotels[h])
             /\ \A n \in RatingInputs :
                  LET x == updateReview2(reviews, hotels, u, h, r, n) IN
                  x.resp.code = "redirect" =>
                      IsMean(x.hotels[h].averageRating, x.reviews, x.hotels[h])
             /\ LET x == deleteReview(reviews, hotels, u, h, r) IN
                x.resp.code = "redirect" =>
                    IsMean(x.hotels[h].averageRating, x.reviews, x.hotels[h])
             /\ LET x == deleteReview2(reviews, hotels, u, h, r) IN
                x.resp.code = "redirect" =>
                    IsMean(x.hotels[h].averageRating, x.reviews, x.hotels[h])

\* h1 has a 5-star and a 3-star review and averageRating 4; removing the
\* 5-star one gives 3, removing the other as well gives 0
C23_Witness ==
    \E r, s \in DOMAIN reviews :
        /\ hotels["h1"].reviews = <<r, s>>
        /\ reviews[r].live /\ reviews[r].rating = 5
        /\ reviews[s].live /\ reviews[s].rating = 3
        /\ hotels["h1"].averageRating = <<4, 1>>
        /\ LET x == deleteReview(reviews, hotels, reviews[r].author, "h1", r)
               y == deleteReview(x.reviews, x.hotels, reviews[s].author, "h1", s)
           IN  /\ x.hotels["h1"].averageRating = <<3, 1>>
               /\ y.hotels["h1"].averageRating = <<0, 1>>

\* C24: no drift under concurrency: whatever the interleaving of concurrent
\* review create, update and delete requests on a hotel, once all requests
\* and their recomputes have finished the hotel's averageRating is the mean
\* of the reviews it has (0 when it has none).
C24_NoDrift ==
    AllDone => \A h \in HotelIds : IsMean(hotels[h].averageRating, reviews, hotels[h])

\* C25: in every reachable state every stored review has a rating in 1..5
\* and every hotel's averageRating lies in [0, 5]: a create or update that
\* submits a rating outside 1..5 does not store it.
C25_RatingRange ==
    /\ \A r \in DOMAIN reviews : reviews[r].live => reviews[r].rating \in 1..5
    /\ \A h \in HotelIds :
         LET avg == hotels[h].averageRating IN
         avg[1] >= 0 /\ avg[1] <= 5 * avg[2]

\* The failure the request must end with when the processor stays silent.
\* The handler's failure answers are 404, 403 and the 500 of its catch
GatewayTimeout == "gateway-timeout"

\* C26: every createIntent request eventually gets a response; when the
\* processor never answers the intent-creation call the request ends with
\* a GatewayTimeout failure after a bounded wait, and no Payment record is
\* created.
C26_IntentResponds ==
    /\ \A i \in 1..MaxRequests :
          (i \in DOMAIN inflight /\ inflight[i].op = "payment")
              ~> (i \in DOMAIN inflight /\ inflight[i].pc = "done")
    /\ [](\A i \in DOMAIN inflight :
            (inflight[i].op = "payment" /\ inflight[i].silent) =>
                /\ inflight[i].intentId = NoIntent
                /\ inflight[i].code \in {"none", GatewayTimeout})
    /\ [](Len(payments) = Len(origin.payments)
            + Cardinality({i \in DOMAIN inflight : inflight[i].code = "client-secret"}))

\* The bookings with one more: a confirmed and completed stay of u at h
WithStay(bk, u, h) == Append(bk, Confirmed(NewBooking(Hotel(h), u, h, 180, 204, "1")))

\* u is an admin or the user who created hotel h
MayNotReview(u, h) == isAdminUser(u) \/ hotels[h].author = u

\* C27: no review is authored by an admin or by the creator of the reviewed
\* hotel: a review request of such a user is rejected and creates no Review,
\* also when the user has a confirmed and completed booking on the hotel.
C27_NoAdminOrOwnerReview ==
    /\ \A h \in HotelIds : \A i \in DOMAIN hotels[h].reviews :
          LET r == hotels[h].reviews[i] IN
          ReviewExists(reviews, r) => ~MayNotReview(reviews[r].author, h)
    /\ \A u \in Users \cup Admins, h \in HotelIds, n \in RatingInputs :
          MayNotReview(u, h) =>
              \A bk \in {bookings, WithStay(bookings, u, h)} :
                  LET x == addReview(reviews, hotels, bk, u, h, n) IN
                  /\ x.resp.code \in {"own-hotel", "admin"}
                  /\ x.reviews = reviews
                  /\ x.hotels = hotels

\* h2 has a review of a guest; the admin "adm", who did not create h2, holds
\* a confirmed and completed booking of h2 and is turned away, and so is the
\* creator of h1 on h1
C27_Witness ==
    /\ \E i \in DOMAIN hotels["h2"].reviews :
          ReviewExists(reviews, hotels["h2"].reviews[i])
    /\ Hotel("h2").author # "adm"
    /\ hasBooked(WithStay(bookings, "adm", "h2"), "adm", "h2")
    /\ addReview(reviews, hotels, WithStay(bookings, "adm", "h2"),
                 "adm", "h2", 5).resp.code = "admin"
    /\ addReview(reviews, hotels, WithStay(bookings, "adm", "h1"),
                 "adm", "h1", 5).resp.code = "own-hotel"

\* C28: a booking request of an admin creates no Booking: whatever its
\* dates and room count, valid or not, the answer is the admin refusal and
\* the collection is left as it is; no booking belongs to an admin.
C28_AdminCannotBook ==
    /\ \A b \in DOMAIN bookings : ~isAdminUser(bookings[b].user)
    /\ \A a \in Admins, h \in HotelIds, stay \in FormStays, n \in FormRooms :
          LET x == bookHotel(bookings, hotels, now, a, h, stay[1], stay[2], n) IN
          /\ x.resp.code = "admin"
          /\ x.bookings = bookings

\* A guest has booked; a stay a guest is granted now is refused to the admin
\* and a stay with invalid dates draws the admin refusal, not "invalid-dates"
C28_Witness ==
    /\ Len(bookings) > 0
    /\ \E h \in HotelIds, stay \in FormStays, n \in FormRooms :
          /\ bookHotel(bookings, hotels, now, "u1", h, stay[1], stay[2], n).resp.code
                = "redirect-payment"
          /\ bookHotel(bookings, hotels, now, "adm", h, stay[1], stay[2], n).resp.code
                = "admin"
    /\ \E h \in HotelIds, stay \in FormStays, n \in FormRooms :
          /\ bookHotel(bookings, hotels, now, "u1", h, stay[1], stay[2], n).resp.code
                = "invalid-dates"
          /\ bookHotel(bookings, hotels, now, "adm", h, stay[1], stay[2], n).resp.code
                = "admin"

\* C29: in every reachable state a confirmed booking has paymentStatus
\* completed and a booking with paymentStatus completed is confirmed or
\* cancelled, never pending, whatever the interleaving of a cancellation
\* with the webhook and the fallback confirmation.
C29_StatusPair ==
    \A b \in DOMAIN bookings :
        /\ bookings[b].status = "confirmed" => bookings[b].paymentStatus = "completed"
        /\ bookings[b].paymentStatus = "completed" =>
               bookings[b].status \in {"confirmed", "cancelled"}

\* A cancellation and a fallback confirmation of the same booking both
\* loaded it while it was pending and both have saved: the booking is
\* cancelled and paid, or confirmed and paid
C29_Witness ==
    \E i, j \in DOMAIN inflight :
        /\ inflight[i].op = "cancel" /\ inflight[i].pc = "done"
        /\ inflight[j].op = "payment-success" /\ inflight[j].pc = "done"
        /\ inflight[i].snap # <<>> /\ inflight[i].snap.status = "pending"
        /\ inflight[j].snap # <<>> /\ inflight[j].snap.status = "pending"
        /\ bookings[1].paymentStatus = "completed"
        /\ bookings[1].status = "cancelled"

\* C30: every Payment record with status succeeded carries the id of an
\* intent the processor reports as succeeded; neither confirmation path marks
\* a record whose own intent did not succeed.
C30_SucceededIntent ==
    \A p \in DOMAIN payments :
        payments[p].status = "succeeded" =>
            /\ payments[p].paymentIntentId \in DOMAIN intents
            /\ intents[payments[p].paymentIntentId].status = "succeeded"

\* ======================================================================
\*   CLAIMS on frames, progress and the values of the payment fields
\* ======================================================================

\* The step cancels booking b
Cancels(b) ==
    /\ b \in DOMAIN bookings /\ b \in DOMAIN bookings'
    /\ bookings[b].status # "cancelled"
    /\ bookings'[b].status = "cancelled"

\* The step changes the status field of booking b and nothing else
OnlyStatusCancelled(b) ==
    /\ bookings' = [bookings EXCEPT ![b].status = "cancelled"]
    /\ UNCHANGED <<payments, intents, hotels, reviews>>

\* C31: a successful cancel changes only the status field of the booking
\* cancelled: its paymentStatus, paymentIntentId, dates, room count and
\* totalPrice, every Payment record, every other booking and every hotel
\* are as before.
C31_CancelFrame ==
    [][\A b \in 1..MaxDocs : Cancels(b) => OnlyStatusCancelled(b)]_vars

\* A paid booking has been cancelled: it keeps paymentStatus completed and
\* its Payment is still succeeded
C31_Witness ==
    \E b \in DOMAIN bookings, p \in DOMAIN payments :
        /\ bookings[b].status = "cancelled"
        /\ bookings[b].paymentStatus = "completed"
        /\ bookings[b].paymentIntentId # NoIntent
        /\ payments[p].booking = b
        /\ payments[p].status = "succeeded"

\* The processor's signed payment_intent.succeeded event of intent 1 of
\* booking 1 has been delivered
SignedSuccessDelivered ==
    \E i \in DOMAIN inflight :
        /\ inflight[i].op = "webhook" /\ inflight[i].sig = "stripe"
        /\ inflight[i].event = Event("payment_intent.succeeded", 1, 1)

\* Booking 1 is confirmed and paid and the Payment of intent 1 is succeeded
ConfirmedAndRecorded ==
    /\ bookings[1].status = "confirmed"
    /\ bookings[1].paymentStatus = "completed"
    /\ \E p \in DOMAIN payments :
          payments[p].paymentIntentId = 1 /\ payments[p].status = "succeeded"

\* C32: when an intent of a booking that is not cancelled has succeeded at
\* the processor and the signed webhook has been delivered, the booking is
\* eventually confirmed with paymentStatus completed and the Payment of
\* that intent eventually succeeded (unless the booking is cancelled
\* meanwhile).
C32_ConfirmationArrives ==
    (SignedSuccessDelivered /\ bookings[1].status # "cancelled")
        ~> (ConfirmedAndRecorded \/ bookings[1].status = "cancelled")

\* The texts whose number is 0 or negative
NoRooms == {n \in RoomTexts : ~Greater(ToNumber(n), Zero)}

\* C33: every stored Booking has numberOfRooms >= 1: a booking request with
\* numberOfRooms 0 or negative creates no Booking, whatever its stay.
C33_AtLeastOneRoom ==
    /\ \A b \in DOMAIN bookings : bookings[b].numberOfRooms >= 1
    /\ \A u \in BookUsers, h \in HotelIds, stay \in FormStays, n \in NoRooms :
          bookHotel(bookings, hotels, now, u, h, stay[1], stay[2], n).bookings = bookings

\* There is a booking, and a stay for which one room is granted is refused
\* by the schema when asked for 0 and for -1 rooms
C33_Witness ==
    /\ Len(bookings) > 0
    /\ \E h \in HotelIds, stay \in FormStays :
          /\ bookHotel(bookings, hotels, now, "u1", h, stay[1], stay[2], "1").resp.code
                = "redirect-payment"
          /\ bookHotel(bookings, hotels, now, "u1", h, stay[1], stay[2], "0").resp.code
                = "failed"
          /\ bookHotel(bookings, hotels, now, "u1", h, stay[1], stay[2], "-1").resp.code
                = "failed"

\* The answer x of a review handler left the reviews and the hotels alone
LeavesReviews(x) == x.reviews = reviews /\ x.hotels = hotels

\* C34: a review update or delete request of a user who is not the
\* review's author leaves the Review, the hotel's review set and the
\* hotel's averageRating as they are, under either definition of the
\* delete handler.
C34_NonAuthorChangesNothing ==
    \A u \in Users, h \in HotelIds, r \in DOMAIN reviews :
        (ReviewExists(reviews, r) /\ reviews[r].author # u) =>
            /\ \A n \in RatingInputs :
                  LeavesReviews(updateReview(reviews, hotels, u, h, r, n))
            /\ LeavesReviews(deleteReview(reviews, hotels, u, h, r))
            /\ LeavesReviews(deleteReview2(reviews, hotels, u, h, r))

\* Request i is a review update or delete whose response has been sent
Responded(i) ==
    /\ inflight[i].op \in {"update", "update2", "delete", "delete2"}
    /\ inflight[i].code = "redirect"

\* C35: once a review update or delete request has sent its response, the
\* averageRating of its hotel is the mean of the changed review set: with no
\* other request under way, a read of the hotel after the response does not
\* see the average of before the change.
C35_RecomputeBeforeResponse ==
    (Len(inflight) = 1 /\ Responded(1)) =>
        IsMean(hotels[inflight[1].h].averageRating, reviews, hotels[inflight[1].h])

\* The step takes no booking back from paymentStatus completed and no
\* Payment back from status succeeded
KeepsPaid ==
    /\ \A b \in DOMAIN bookings :
          bookings[b].paymentStatus = "completed" =>
              b \in DOMAIN bookings' /\ bookings'[b].paymentStatus = "completed"
    /\ \A p \in DOMAIN payments :
          payments[p].status = "succeeded" =>
              p \in DOMAIN payments' /\ payments'[p].status = "succeeded"

\* C36: payment progress is monotonic: a booking whose paymentStatus is
\* completed is never again pending or failed and a Payment that is
\* succeeded never again pending or failed, whatever createIntent, webhook,
\* fallback and cancel requests follow or run alongside.
C36_PaidStaysPaid == [][KeepsPaid]_vars

\* A cancellation and a createIntent request both loaded the booking after
\* it was paid and both have saved it: it is cancelled, carries the new
\* intent, and is still completed with its Payment succeeded
C36_Witness ==
    /\ \E i, j \in DOMAIN inflight :
          /\ inflight[i].op = "cancel" /\ inflight[i].pc = "done"
          /\ inflight[i].snap # <<>> /\ inflight[i].snap.paymentStatus = "completed"
          /\ inflight[j].op = "payment" /\ inflight[j].pc = "done"
          /\ inflight[j].snap # <<>> /\ inflight[j].snap.paymentStatus = "completed"
          /\ bookings[1].paymentIntentId = inflight[j].intentId
    /\ bookings[1].status = "cancelled"
    /\ bookings[1].paymentStatus = "completed"
    /\ \E p \in DOMAIN payments : payments[p].status = "succeeded"

\* Events of the processor that are not payment_intent.succeeded
OtherEventTypes == {"payment_intent.created", "payment_intent.payment_failed"}
OtherEvents == {Event(ty, i, b) : ty \in OtherEventTypes, i \in IntentIds,
                                  b \in BookingIds}

\* The payment fields of x hold no other values than pending and
\* completed, pending and succeeded
PaymentValues(bk, pay) ==
    /\ \A b \in DOMAIN bk :
          Exists(bk, b) => bk[b].paymentStatus \in {"pending", "completed"}
    /\ \A p \in DOMAIN pay :
          Exists(pay, p) => pay[p].status \in {"pending", "succeeded"}

\* C37: no handler sets a booking's paymentStatus or a Payment's status to
\* failed: in every reachable state the fields hold pending or completed,
\* pending or succeeded; a webhook event of another type than
\* payment_intent.succeeded changes nothing, and once verified it is
\* acknowledged; a verified payment_intent.succeeded event writes completed
\* and succeeded only.
C37_NeverFailed ==
    /\ PaymentValues(bookings, payments)
    /\ \A e \in OtherEvents :
          /\ \A sig \in Signatures :
                LET x == webhookStripe(bookings, payments, e, sig) IN
                x.bookings = bookings /\ x.payments = payments
          /\ LET y == handleEvent(bookings, payments, e) IN
             /\ y.bookings = bookings /\ y.payments = payments
             /\ y.resp.code = "received"
    /\ \A e \in AnyEvents :
          LET y == handleEvent(bookings, payments, e) IN
          PaymentValues(y.bookings, y.payments)

\* A booking is paid, its Payment is succeeded, and the processor's event
\* of another type for one of the intents there are leaves both as they are
C37_Witness ==
    /\ \E b \in DOMAIN bookings : bookings[b].paymentStatus = "completed"
    /\ \E p \in DOMAIN payments :
          /\ payments[p].status = "succeeded"
          /\ LET e == Event("payment_intent.payment_failed",
                            payments[p].paymentIntentId, payments[p].booking)
             IN  /\ e \in OtherEvents
                 /\ handleEvent(bookings, payments, e).payments = payments
                 /\ webhookStripe(bookings, payments, e, "stripe").payments
                       = payments

====
